---- MODULE Spec2Model ----
(***************************************************************************)
(* FollowUpFlow: the conversation tree of a brainstorming board.           *)
(*                                                                         *)
(* The store is the Postgres schema of prisma/migrations (Node and Edge    *)
(* rows with their foreign keys), written by the API handlers of           *)
(* pages/api; the client is the board page src/app/page.tsx, whose         *)
(* handlers are asynchronous: every await is a point where another         *)
(* handler may run, so a handler is modelled as a request that advances    *)
(* one server call at a time.                                              *)
(*                                                                         *)
(* Ids are positive integers handed out in creation order (the store's     *)
(* cuid ids are unique and never reused); Null stands for SQL NULL and     *)
(* for JavaScript null/undefined.  A node's content is modelled by its     *)
(* length in characters (len), which is all the code below reads of it.    *)
(***************************************************************************)
EXTENDS Integers, Sequences, FiniteSets, TLC

VARIABLES
  dbNodes,          \* Node table: id -> row
  dbEdges,          \* Edge table: set of rows
  nextId,           \* next fresh id of the store
  currentBoard,     \* page.tsx state: the loaded board, or Null
  nodes,            \* page.tsx state: in-memory node list
  edges,            \* page.tsx state: in-memory edge list
  isGenerating,     \* page.tsx state
  generatingNodeId, \* page.tsx state
  error,            \* page.tsx state: the dismissible error message, or Null
  reqs,             \* client handlers in flight: slot -> request
  lastDelete,       \* the last 200 response of POST /api/nodes/delete
  failedGen,        \* ids of answer nodes created by generations that then failed (history)
  walk,             \* the parent-chain walk of buildContext (its own specification)
  del,              \* the request to POST /api/nodes/delete that is between two writes
  drag,             \* the drag gesture on a card and the save that follows it
  view,             \* page.tsx state: zoom and offset of the canvas, and the window
  llm,              \* the request to POST /api/llm and its upstream attempts
  retry,            \* a store call wrapped in retryWithBackoff
  srv,              \* the tables with their boards and owners, and the last API request
  calc              \* a call of calculateNewNodePosition: its arguments and its result

vars == <<dbNodes, dbEdges, nextId, currentBoard, nodes, edges,
          isGenerating, generatingNodeId, error, reqs, lastDelete,
          failedGen, walk, del, drag, view, llm, retry, srv, calc>>

\* the variables of the specifications that follow the board's flows
otherVars == <<del, drag, view, llm, retry, srv, calc>>
notDel == <<drag, view, llm, retry, srv, calc>>
notDrag == <<del, view, llm, retry, srv, calc>>
notView == <<del, drag, llm, retry, srv, calc>>
notLlm == <<del, drag, view, retry, srv, calc>>
notRetry == <<del, drag, view, llm, srv, calc>>
notSrv == <<del, drag, view, llm, retry, calc>>
notCalc == <<del, drag, view, llm, retry, srv>>

storeVars == <<dbNodes, dbEdges, nextId>>

\* ids are never reused: the rows that have been deleted
deleted == (1..(nextId - 1)) \ DOMAIN dbNodes
flagVars == <<isGenerating, generatingNodeId, error>>

Null == 0

\* setError(null): no message is shown
NoError == "null"

\* ---------------------------------------------------------------- bounds
MaxNodes == 4        \* Node rows created in one behaviour
MaxInFlight == 2     \* client handlers in flight at once
MaxRoots == 3        \* root questions asked in one behaviour
WalkNodes == 6       \* nodes of a list handed to buildContext
MaxDrags == 2        \* drag gestures in one behaviour
MaxViewSteps == 3    \* zoom and fit events in one behaviour

\* ------------------------------------------------------ program constants
HorizontalSpacing == 100
VerticalSpacing == 40
FallbackX == 100
FallbackY == 100
RootX == 100
FirstRootY == 200
RootGap == 100
NodeWidth == 320
RootHeight == 140
QuestionMinHeight == 140
QuestionMaxHeight == 180
AnswerMinHeight == 160
AnswerMaxHeight == 240
Padding == 100
HeaderHeight == 100

Max(a, b) == IF a > b THEN a ELSE b
Min(a, b) == IF a < b THEN a ELSE b

QuestionTypes == {"root_question", "followup_question"}
AnswerTypes == {"ai_answer", "followup_answer"}

\* type.includes('question')
IsQuestion(t) == t \in QuestionTypes

\* ------------------------------------------------------------- the store
\* A Node row.  boardId is not modelled: one board is loaded.
Row(id, type, parentId, rootId, x, y, width, height, len) ==
  [id |-> id, type |-> type, parentId |-> parentId, rootId |-> rootId,
   x |-> x, y |-> y, width |-> width, height |-> height, len |-> len]

\* nodeToDTO: the row as the API returns it (snake_case)
nodeToDTO(r) ==
  [id |-> r.id, type |-> r.type, parent_id |-> r.parentId, root_id |-> r.rootId,
   x |-> r.x, y |-> r.y, width |-> r.width, height |-> r.height, len |-> r.len]

NoNode == [id |-> Null, type |-> "none", parent_id |-> Null, root_id |-> Null,
           x |-> 0, y |-> 0, width |-> 0, height |-> 0, len |-> 0]

Ids(db) == DOMAIN db

\* Node_parentId_fkey / Node_rootId_fkey: a referenced id is NULL or an existing row
FkOk(db, ref) == ref = Null \/ ref \in Ids(db)

\* prisma.node.create succeeds iff the foreign keys hold
CanCreateNode(db, parentId, rootId) == FkOk(db, parentId) /\ FkOk(db, rootId)

InsertNode(db, row) ==
  [i \in Ids(db) \cup {row.id} |-> IF i = row.id THEN row ELSE db[i]]

\* ON DELETE SET NULL of both self-references of Node
SetNullOnDelete(db, id) ==
  [i \in Ids(db) \ {id} |->
     [db[i] EXCEPT !.parentId = IF @ = id THEN Null ELSE @,
                   !.rootId = IF @ = id THEN Null ELSE @]]

\* a row removal that leaves the references to the row as they are, as a Node
\* table without the two SET NULL actions would
DeleteNodeRowOnly(db, id) == [i \in Ids(db) \ {id} |-> db[i]]

\* prisma.node.delete on the Node table
DeleteNodeRow(db, id) == SetNullOnDelete(db, id)

\* a Node row removal that leaves the Edge rows of the node in place
KeepEdges(es, id) == es

\* ON DELETE CASCADE of Edge.sourceId and Edge.targetId
CascadeEdges(es, id) == {e \in es : e.sourceId # id /\ e.targetId # id}

\* prisma.edge.create succeeds iff both ends exist
CanCreateEdge(db, sourceId, targetId) == sourceId \in Ids(db) /\ targetId \in Ids(db)

\* ------------------------------------------------------------ the layout
\* children.reduce((prev, current) => (prev.y > current.y) ? prev : current)
RECURSIVE ReduceLastChild(_, _, _)
ReduceLastChild(children, i, prev) ==
  IF i > Len(children) THEN prev
  ELSE ReduceLastChild(children, i + 1,
                       IF prev.y > children[i].y THEN prev ELSE children[i])

\* allNodes.filter(n => n.parent_id === parentNodeId)
RECURSIVE ChildrenOf(_, _)
ChildrenOf(allNodes, parentNodeId) ==
  IF allNodes = <<>> THEN <<>>
  ELSE IF Head(allNodes).parent_id = parentNodeId
       THEN <<Head(allNodes)>> \o ChildrenOf(Tail(allNodes), parentNodeId)
       ELSE ChildrenOf(Tail(allNodes), parentNodeId)

\* allNodes.find(n => n.id === id), NoNode when there is none
RECURSIVE FindNode(_, _)
FindNode(allNodes, id) ==
  IF allNodes = <<>> THEN NoNode
  ELSE IF Head(allNodes).id = id THEN Head(allNodes)
       ELSE FindNode(Tail(allNodes), id)

\* a placement that forgets the last child's height
BelowLastChildY(children) ==
  LET lastChild == ReduceLastChild(children, 2, children[1])
  IN lastChild.y + VerticalSpacing

\* the y below the last child: lastChild.y + lastChild.height + 40
BelowLastChild(children) ==
  LET lastChild == ReduceLastChild(children, 2, children[1])
  IN lastChild.y + lastChild.height + VerticalSpacing

\* a placement with no gap between the parent and its children's column
calculateNewNodePositionNoGap(parentNodeId, allNodes) ==
  LET parentNode == FindNode(allNodes, parentNodeId)
  IN IF parentNode = NoNode THEN [x |-> FallbackX, y |-> FallbackY]
     ELSE [x |-> parentNode.x + parentNode.width, y |-> parentNode.y]

calculateNewNodePosition(parentNodeId, allNodes) ==
  LET parentNode == FindNode(allNodes, parentNodeId)
      children == ChildrenOf(allNodes, parentNodeId)
  IN IF parentNode = NoNode THEN [x |-> FallbackX, y |-> FallbackY]
     ELSE [x |-> parentNode.x + parentNode.width + HorizontalSpacing,
           y |-> IF Len(children) > 0 THEN BelowLastChild(children)
                 ELSE parentNode.y]

\* addRootQuestion: existingRoots.reduce(..., { y: 100, height: 0 })
RECURSIVE ReduceBottomMostRoot(_, _, _)
ReduceBottomMostRoot(roots, i, prev) ==
  IF i > Len(roots) THEN prev
  ELSE ReduceBottomMostRoot(roots, i + 1,
         IF (prev.y + prev.height) > (roots[i].y + roots[i].height)
         THEN prev ELSE roots[i])

\* nodes.filter(n => n.type === 'root_question')
RECURSIVE ExistingRoots(_)
ExistingRoots(allNodes) ==
  IF allNodes = <<>> THEN <<>>
  ELSE IF Head(allNodes).type = "root_question"
       THEN <<Head(allNodes)>> \o ExistingRoots(Tail(allNodes))
       ELSE ExistingRoots(Tail(allNodes))

\* a placement that forgets the bottom-most root's height
newRootYFromTop(allNodes) ==
  LET bottomMostRoot == ReduceBottomMostRoot(ExistingRoots(allNodes), 1,
                                             [y |-> 100, height |-> 0])
  IN bottomMostRoot.y + RootGap

\* addRootQuestion: bottomMostRoot.y + bottomMostRoot.height + 100
newRootY(allNodes) ==
  LET bottomMostRoot == ReduceBottomMostRoot(ExistingRoots(allNodes), 1,
                                             [y |-> 100, height |-> 0])
  IN bottomMostRoot.y + bottomMostRoot.height + RootGap

\* Math.max(140, Math.min(180, followupQuestion.length / 3)), floored by the API
QuestionHeight(len) == Max(QuestionMinHeight, Min(QuestionMaxHeight, len \div 3))

\* Math.max(160, Math.min(240, response.length / 4)), floored by the API
AnswerHeight(len) == Max(AnswerMinHeight, Min(AnswerMaxHeight, len \div 4))

\* ------------------------------------------ POST /api/nodes/delete (pages)
\* findFirst({ parentId: nodeId, type: { in: ['ai_answer', 'followup_answer'] } }):
\* the rows it may return (no orderBy: any one of them)
AnswerNodesOf(db, nodeId) ==
  {i \in Ids(db) : db[i].parentId = nodeId /\ db[i].type \in AnswerTypes}

\* findMany({ parentId: answerNode?.id || nodeId, type: 'followup_question' })
FollowupChildren(db, nodeId, answerId) ==
  LET from == IF answerId # Null THEN answerId ELSE nodeId
  IN {i \in Ids(db) : db[i].parentId = from /\ db[i].type = "followup_question"}

\* an update that hands every child the deleted question's rootId, promoted or not
ReparentKeepingRoot(db, children, targetParentId, targetRootId) ==
  [i \in Ids(db) |->
     IF i \in children
     THEN [db[i] EXCEPT !.parentId = targetParentId, !.rootId = targetRootId]
     ELSE db[i]]

\* an update that promotes every child to a root, whatever the deleted question was
ReparentAsRoots(db, children, targetParentId, targetRootId) ==
  [i \in Ids(db) |->
     IF i \in children THEN [db[i] EXCEPT !.parentId = Null, !.rootId = i]
     ELSE db[i]]

\* step 4: the update of every follow-up child
Reparent(db, children, targetParentId, targetRootId) ==
  [i \in Ids(db) |->
     IF i \in children
     THEN [db[i] EXCEPT !.parentId = IF targetParentId = Null THEN Null
                                     ELSE targetParentId,
                        !.rootId = IF targetParentId = Null THEN i
                                   ELSE targetRootId]
     ELSE db[i]]

\* steps 4 to 6 on the Node table
DeletePlanNodes(db, nodeId, answerId) ==
  LET children == FollowupChildren(db, nodeId, answerId)
      db1 == Reparent(db, children, db[nodeId].parentId, db[nodeId].rootId)
      db2 == IF answerId # Null THEN DeleteNodeRow(db1, answerId) ELSE db1
  IN DeleteNodeRow(db2, nodeId)

\* an edge cleanup that forgets the edges of the paired answer
DeletePlanEdgesOfQuestion(es, nodeId, answerId) == CascadeEdges(es, nodeId)

\* steps 5 to 7 on the Edge table
DeletePlanEdges(es, nodeId, answerId) ==
  CascadeEdges(CascadeEdges(es, answerId), nodeId)

\* the 200 response: { ok, deletedNodes, reparentedChildren }
DeleteResponse(deletedNodes, reparentedChildren) ==
  [deletedNodes |-> deletedNodes, reparentedChildren |-> reparentedChildren]

clientVars == <<currentBoard, nodes, edges, isGenerating, generatingNodeId,
                error, reqs, failedGen>>

\* 404: the target row does not exist
DeleteNotFound(nodeId) ==
  /\ nodeId \in deleted
  /\ UNCHANGED vars

\* 400: only question nodes may be deleted
DeleteNotQuestion(nodeId) ==
  /\ nodeId \in Ids(dbNodes)
  /\ ~IsQuestion(dbNodes[nodeId].type)
  /\ UNCHANGED vars

\* 200: reparent, delete the answer, delete the question, clean up the edges
DeleteQuestion(nodeId) ==
  /\ nodeId \in Ids(dbNodes)
  /\ IsQuestion(dbNodes[nodeId].type)
  /\ \E answerId \in IF AnswerNodesOf(dbNodes, nodeId) = {} THEN {Null}
                     ELSE AnswerNodesOf(dbNodes, nodeId) :
       /\ dbNodes' = DeletePlanNodes(dbNodes, nodeId, answerId)
       /\ dbEdges' = DeletePlanEdges(dbEdges, nodeId, answerId)
       /\ lastDelete' = DeleteResponse(
                          IF answerId # Null THEN <<nodeId, answerId>> ELSE <<nodeId>>,
                          FollowupChildren(dbNodes, nodeId, answerId))
  /\ UNCHANGED <<nextId, clientVars, walk, otherVars>>

\* ------------------------------------------------- the board page (client)
\* A handler in flight: what it captured when it was called (its closure over
\* nodes is snapshot) and the await it is suspended at (pc).
Req(kind, pc, parentNodeId, rootId, x, y, len, snapshot, node) ==
  [kind |-> kind, pc |-> pc, parentNodeId |-> parentNodeId, rootId |-> rootId,
   x |-> x, y |-> y, len |-> len, snapshot |-> snapshot, node |-> node]

Idle == Req("idle", "idle", Null, Null, 0, 0, 0, <<>>, NoNode)

Slots == 1..MaxInFlight
FreeSlots == {s \in Slots : reqs[s].kind = "idle"}
FreeSlot == CHOOSE s \in FreeSlots : \A t \in FreeSlots : s <= t

\* the bound on the rows created in one behaviour
CanAllocate == nextId <= MaxNodes

\* the handlers in flight that have a Node.create ahead of them
Pending == Cardinality({s \in Slots : reqs[s].pc \in {"create", "timer", "llm"}})

\* a handler is started only while the bound leaves it a row to create
CanStart == FreeSlots # {} /\ nextId + Pending <= MaxNodes

\* edgeToDTO
edgeToDTO(e) == [source_id |-> e.sourceId, target_id |-> e.targetId]

\* an Edge row (its own id is not read by any handler)
EdgeRow(sourceId, targetId) == [sourceId |-> sourceId, targetId |-> targetId]

\* allNodes.find(n => n.parent_id === id && types.includes(n.type))
RECURSIVE FindChildOfType(_, _, _)
FindChildOfType(allNodes, id, types) ==
  IF allNodes = <<>> THEN NoNode
  ELSE IF Head(allNodes).parent_id = id /\ Head(allNodes).type \in types
       THEN Head(allNodes)
       ELSE FindChildOfType(Tail(allNodes), id, types)

\* CanvasNode: aiAnswer, the inlined answer of a question card
aiAnswer(node, allNodes) ==
  IF IsQuestion(node.type) /\ Len(allNodes) > 0
  THEN FindChildOfType(allNodes, node.id,
         IF node.type = "root_question" THEN {"ai_answer"} ELSE {"followup_answer"})
  ELSE NoNode

\* CanvasNode.handleAddFollowup: the node the follow-up is attached to
targetNodeId(node, allNodes) ==
  IF IsQuestion(node.type) /\ aiAnswer(node, allNodes) # NoNode
  THEN LET a == FindChildOfType(allNodes, node.id, AnswerTypes)
       IN IF a # NoNode THEN a.id ELSE node.id
  ELSE node.id

\* the catch block of a handler: the message, and the handler is over
Fails(s, message) ==
  /\ error' = message
  /\ reqs' = [reqs EXCEPT ![s] = Idle]

\* setTimeout(() => generateAIResponse(id, question, board, rootId, newNodes), 500)
Scheduled(id, rootId, len, newNodes) ==
  Req("gen", "timer", id, rootId, 0, 0, len, newNodes, NoNode)

\* the bound on the root questions: those of the list and those being created
RootsAsked ==
  Len(ExistingRoots(nodes)) + Cardinality({s \in Slots : reqs[s].kind = "root"})

\* createBoard, up to its first await on the Node table
CreateBoard(lens) ==
  /\ currentBoard = Null
  /\ \A s \in Slots : reqs[s].kind # "board"
  /\ CanStart
  /\ \E len \in lens :
       reqs' = [reqs EXCEPT ![FreeSlot] =
                  Req("board", "create", Null, Null, RootX, FirstRootY, len, <<>>, NoNode)]
  /\ error' = NoError
  /\ UNCHANGED <<storeVars, currentBoard, nodes, edges, isGenerating,
                 generatingNodeId, failedGen, lastDelete, walk, otherVars>>

\* addRootQuestion, up to its first await
AddRootQuestion(lens) ==
  /\ currentBoard # Null
  /\ CanStart
  /\ RootsAsked < MaxRoots
  /\ \E len \in lens :
       reqs' = [reqs EXCEPT ![FreeSlot] =
                  Req("root", "create", Null, Null, RootX, newRootY(nodes), len,
                      nodes, NoNode)]
  /\ error' = NoError
  /\ UNCHANGED <<storeVars, currentBoard, nodes, edges, isGenerating,
                 generatingNodeId, failedGen, lastDelete, walk, otherVars>>

\* Node.create of the root (no root_id, no parent_id) succeeds
RootCreateOk(s) ==
  /\ reqs[s].kind \in {"board", "root"} /\ reqs[s].pc = "create"
  /\ CanAllocate
  /\ LET row == Row(nextId, "root_question", Null, Null, reqs[s].x, reqs[s].y,
                    NodeWidth, RootHeight, reqs[s].len)
     IN /\ dbNodes' = InsertNode(dbNodes, row)
        /\ reqs' = [reqs EXCEPT ![s].node = nodeToDTO(row), ![s].pc = "update"]
  /\ nextId' = nextId + 1
  /\ UNCHANGED <<dbEdges, currentBoard, nodes, edges, flagVars,
                 failedGen, lastDelete, walk, otherVars>>

\* Node.create of the root throws (no foreign key is involved)
RootCreateFail(s) ==
  /\ reqs[s].kind \in {"board", "root"} /\ reqs[s].pc = "create"
  /\ Fails(s, IF reqs[s].kind = "board" THEN "Failed to create board"
              ELSE "Failed to add root question")
  /\ UNCHANGED <<storeVars, currentBoard, nodes, edges, isGenerating,
                 generatingNodeId, failedGen, lastDelete, walk, otherVars>>

\* Node.update(rootNode.id, { root_id: rootNode.id }) succeeds; the handler then
\* sets the node list and schedules the generation
RootUpdateOk(s) ==
  /\ reqs[s].kind \in {"board", "root"} /\ reqs[s].pc = "update"
  /\ reqs[s].node.id \in Ids(dbNodes)
  /\ LET id == reqs[s].node.id
         rootNode == [reqs[s].node EXCEPT !.root_id = id]
         newNodes == IF reqs[s].kind = "board" THEN <<rootNode>>
                     ELSE Append(reqs[s].snapshot, rootNode)
     IN /\ dbNodes' = [dbNodes EXCEPT ![id].rootId = id]
        /\ nodes' = newNodes
        /\ edges' = IF reqs[s].kind = "board" THEN <<>> ELSE edges
        /\ currentBoard' = IF reqs[s].kind = "board" THEN 1 ELSE currentBoard
        /\ reqs' = [reqs EXCEPT ![s] = Scheduled(id, id, reqs[s].len, newNodes)]
  /\ UNCHANGED <<dbEdges, nextId, flagVars, failedGen, lastDelete, walk, otherVars>>

\* Node.update throws: the row is gone, or (generic) any other failure of the call
RootUpdateFail(s, generic) ==
  /\ reqs[s].kind \in {"board", "root"} /\ reqs[s].pc = "update"
  /\ generic \/ reqs[s].node.id \notin Ids(dbNodes)
  /\ Fails(s, IF reqs[s].kind = "board" THEN "Failed to create board"
              ELSE "Failed to add root question")
  /\ UNCHANGED <<storeVars, currentBoard, nodes, edges, isGenerating,
                 generatingNodeId, failedGen, lastDelete, walk, otherVars>>

\* CanvasNode.handleAddFollowup on the card of nodes[i], then handleAddFollowup of
\* the page up to its first await.  The card's button is disabled while
\* generatingNodeId is the card's node.
HandleAddFollowup(lens) ==
  /\ currentBoard # Null
  /\ CanStart
  /\ \E i \in 1..Len(nodes), len \in lens :
       LET parentNodeId == targetNodeId(nodes[i], nodes)
           parentNode == FindNode(nodes, parentNodeId)
           rootId == IF parentNode.root_id # Null THEN parentNode.root_id
                     ELSE parentNode.id
           pos == calculateNewNodePosition(parentNodeId, nodes)
       IN /\ IsQuestion(nodes[i].type)
          /\ generatingNodeId # nodes[i].id
          /\ reqs' = [reqs EXCEPT ![FreeSlot] =
                        Req("followup", "create", parentNodeId, rootId, pos.x, pos.y,
                            len, nodes, NoNode)]
  /\ error' = NoError
  /\ UNCHANGED <<storeVars, currentBoard, nodes, edges, isGenerating,
                 generatingNodeId, failedGen, lastDelete, walk, otherVars>>

\* Node.create of the follow-up question succeeds
FollowupCreateOk(s) ==
  /\ reqs[s].kind = "followup" /\ reqs[s].pc = "create"
  /\ CanAllocate
  /\ CanCreateNode(dbNodes, reqs[s].parentNodeId, reqs[s].rootId)
  /\ LET row == Row(nextId, "followup_question", reqs[s].parentNodeId, reqs[s].rootId,
                    reqs[s].x, reqs[s].y, NodeWidth, QuestionHeight(reqs[s].len),
                    reqs[s].len)
     IN /\ dbNodes' = InsertNode(dbNodes, row)
        /\ reqs' = [reqs EXCEPT ![s].node = nodeToDTO(row), ![s].pc = "edge"]
  /\ nextId' = nextId + 1
  /\ UNCHANGED <<dbEdges, currentBoard, nodes, edges, flagVars,
                 failedGen, lastDelete, walk, otherVars>>

\* Node.create throws: a foreign key fails, or (generic) any other failure
FollowupCreateFail(s, generic) ==
  /\ reqs[s].kind = "followup" /\ reqs[s].pc = "create"
  /\ generic \/ ~CanCreateNode(dbNodes, reqs[s].parentNodeId, reqs[s].rootId)
  /\ Fails(s, "Failed to add follow-up question")
  /\ UNCHANGED <<storeVars, currentBoard, nodes, edges, isGenerating,
                 generatingNodeId, failedGen, lastDelete, walk, otherVars>>

\* Edge.create succeeds; the handler then sets the node list from its snapshot,
\* appends the edge and schedules the generation
FollowupEdgeOk(s) ==
  /\ reqs[s].kind = "followup" /\ reqs[s].pc = "edge"
  /\ CanCreateEdge(dbNodes, reqs[s].parentNodeId, reqs[s].node.id)
  /\ LET row == EdgeRow(reqs[s].parentNodeId, reqs[s].node.id)
         newNodes == Append(reqs[s].snapshot, reqs[s].node)
     IN /\ dbEdges' = dbEdges \cup {row}
        /\ nodes' = newNodes
        /\ edges' = Append(edges, edgeToDTO(row))
        /\ reqs' = [reqs EXCEPT ![s] =
                      Scheduled(reqs[s].node.id, reqs[s].rootId, reqs[s].len, newNodes)]
  /\ UNCHANGED <<dbNodes, nextId, currentBoard, flagVars, failedGen, lastDelete, walk, otherVars>>

\* Edge.create throws after the question node was created
FollowupEdgeFail(s, generic) ==
  /\ reqs[s].kind = "followup" /\ reqs[s].pc = "edge"
  /\ generic \/ ~CanCreateEdge(dbNodes, reqs[s].parentNodeId, reqs[s].node.id)
  /\ Fails(s, "Failed to add follow-up question")
  /\ UNCHANGED <<storeVars, currentBoard, nodes, edges, isGenerating,
                 generatingNodeId, failedGen, lastDelete, walk, otherVars>>

\* generateAIResponse up to its await of InvokeLLM (buildContext reads only the
\* snapshot it is given)
GenStart(s) ==
  /\ reqs[s].kind = "gen" /\ reqs[s].pc = "timer"
  /\ isGenerating' = TRUE
  /\ generatingNodeId' = reqs[s].parentNodeId
  /\ error' = NoError
  /\ reqs' = [reqs EXCEPT ![s].pc = "llm"]
  /\ UNCHANGED <<storeVars, currentBoard, nodes, edges, failedGen, lastDelete, walk, otherVars>>

\* the end of generateAIResponse after its try/catch
GenEnds(s) ==
  /\ isGenerating' = FALSE
  /\ generatingNodeId' = Null
  /\ reqs' = [reqs EXCEPT ![s] = Idle]

\* responseType of generateAIResponse
responseType(parentNodeId, currentNodes) ==
  IF FindNode(currentNodes, parentNodeId).type = "root_question" THEN "ai_answer"
  ELSE "followup_answer"

\* InvokeLLM returns a response of len characters and Node.create of the answer succeeds
GenCreateOk(s, lens) ==
  /\ reqs[s].kind = "gen" /\ reqs[s].pc = "llm"
  /\ CanAllocate
  /\ CanCreateNode(dbNodes, reqs[s].parentNodeId, reqs[s].rootId)
  /\ \E len \in lens :
       LET pos == calculateNewNodePosition(reqs[s].parentNodeId, reqs[s].snapshot)
           row == Row(nextId, responseType(reqs[s].parentNodeId, reqs[s].snapshot),
                      reqs[s].parentNodeId, reqs[s].rootId, pos.x, pos.y, NodeWidth,
                      AnswerHeight(len), len)
       IN /\ dbNodes' = InsertNode(dbNodes, row)
          /\ reqs' = [reqs EXCEPT ![s].node = nodeToDTO(row), ![s].pc = "edge"]
  /\ nextId' = nextId + 1
  /\ UNCHANGED <<dbEdges, currentBoard, nodes, edges, flagVars,
                 failedGen, lastDelete, walk, otherVars>>

\* InvokeLLM or Node.create throws
GenCreateFail(s) ==
  /\ reqs[s].kind = "gen" /\ reqs[s].pc = "llm"
  /\ error' = "Failed to generate AI response"
  /\ GenEnds(s)
  /\ UNCHANGED <<storeVars, currentBoard, nodes, edges, failedGen, lastDelete, walk, otherVars>>

\* Edge.create succeeds; the node and the edge are appended to the lists
GenEdgeOk(s) ==
  /\ reqs[s].kind = "gen" /\ reqs[s].pc = "edge"
  /\ CanCreateEdge(dbNodes, reqs[s].parentNodeId, reqs[s].node.id)
  /\ LET row == EdgeRow(reqs[s].parentNodeId, reqs[s].node.id)
     IN /\ dbEdges' = dbEdges \cup {row}
        /\ nodes' = Append(nodes, reqs[s].node)
        /\ edges' = Append(edges, edgeToDTO(row))
  /\ GenEnds(s)
  /\ UNCHANGED <<dbNodes, nextId, currentBoard, error, failedGen, lastDelete, walk, otherVars>>

\* Edge.create throws after the answer node was created
GenEdgeFail(s, generic) ==
  /\ reqs[s].kind = "gen" /\ reqs[s].pc = "edge"
  /\ generic \/ ~CanCreateEdge(dbNodes, reqs[s].parentNodeId, reqs[s].node.id)
  /\ error' = "Failed to generate AI response"
  /\ failedGen' = failedGen \cup {reqs[s].node.id}
  /\ GenEnds(s)
  /\ UNCHANGED <<storeVars, currentBoard, nodes, edges, lastDelete, walk, otherVars>>

\* a call of generateAIResponse for a question of the node list, up to its await
\* of InvokeLLM
GenerateAIResponse(lens) ==
  /\ currentBoard # Null
  /\ CanStart
  /\ \E i \in 1..Len(nodes), len \in lens :
       /\ IsQuestion(nodes[i].type)
       /\ reqs' = [reqs EXCEPT ![FreeSlot] =
                     Req("gen", "llm", nodes[i].id,
                         IF nodes[i].root_id # Null THEN nodes[i].root_id ELSE nodes[i].id,
                         0, 0, len, nodes, NoNode)]
       /\ generatingNodeId' = nodes[i].id
  /\ isGenerating' = TRUE
  /\ error' = NoError
  /\ UNCHANGED <<storeVars, currentBoard, nodes, edges, failedGen, lastDelete, walk, otherVars>>

\* -------------------------------------------------------- specifications
QuestionLens == {30}
ResponseLens == {800}

NoWalk == [pc |-> "idle", currentId |-> Null, pathNodes |-> <<>>, allNodes |-> <<>>,
           thread |-> <<>>, related |-> <<>>]

\* no delete request is between two writes
NoDel == [pc |-> "idle", nodeId |-> Null, answerId |-> Null, children |-> {},
          targetParentId |-> Null, targetRootId |-> Null,
          reparented |-> {}, writes |-> <<>>]

\* ------------------------------------------------- JavaScript numbers
\* A number is a fraction n/d in lowest terms (d > 0), Infinity, -Infinity or
\* NaN.  The arithmetic is exact: the rounding of doubles is not modelled.
RECURSIVE GCD(_, _)
GCD(a, b) == IF b = 0 THEN a ELSE GCD(b, a % b)

Abs(a) == IF a < 0 THEN -a ELSE a

Num(n, d) ==
  LET sn == IF d < 0 THEN -n ELSE n
      sd == Abs(d)
      g == GCD(Abs(sn), sd)
  IN [k |-> "num", n |-> sn \div g, d |-> sd \div g]

Whole(n) == [k |-> "num", n |-> n, d |-> 1]
PosInf == [k |-> "inf", n |-> 1, d |-> 0]
NegInf == [k |-> "inf", n |-> -1, d |-> 0]
NaN == [k |-> "nan", n |-> 0, d |-> 0]

IsFinite(a) == a.k = "num"
Sign(a) == IF a.n > 0 THEN 1 ELSE IF a.n < 0 THEN -1 ELSE 0

XNeg(a) == [a EXCEPT !.n = -a.n]

XAdd(a, b) ==
  IF a.k = "nan" \/ b.k = "nan" THEN NaN
  ELSE IF a.k = "inf" THEN (IF b.k = "inf" /\ b.n # a.n THEN NaN ELSE a)
  ELSE IF b.k = "inf" THEN b
  ELSE Num(a.n * b.d + b.n * a.d, a.d * b.d)

XSub(a, b) == XAdd(a, XNeg(b))

XMul(a, b) ==
  IF a.k = "nan" \/ b.k = "nan" THEN NaN
  ELSE IF a.k = "inf" \/ b.k = "inf"
       THEN (IF Sign(a) * Sign(b) = 0 THEN NaN
             ELSE IF Sign(a) * Sign(b) > 0 THEN PosInf ELSE NegInf)
  ELSE Num(a.n * b.n, a.d * b.d)

XDiv(a, b) ==
  IF a.k = "nan" \/ b.k = "nan" THEN NaN
  ELSE IF a.k = "inf" THEN (IF b.k = "inf" THEN NaN
                            ELSE IF Sign(a) * Sign(b) < 0 THEN NegInf ELSE PosInf)
  ELSE IF b.k = "inf" THEN Whole(0)
  ELSE IF b.n = 0 THEN (IF a.n = 0 THEN NaN ELSE IF a.n > 0 THEN PosInf ELSE NegInf)
  ELSE Num(a.n * b.d, a.d * b.n)

\* a <= b, for numbers that are not NaN
XLeq(a, b) ==
  IF a.k = "inf" THEN (a.n < 0 \/ a = b)
  ELSE IF b.k = "inf" THEN b.n > 0
  ELSE a.n * b.d <= b.n * a.d

\* Math.min, Math.max: NaN when an argument is NaN
MathMin(a, b) ==
  IF a.k = "nan" \/ b.k = "nan" THEN NaN ELSE IF XLeq(a, b) THEN a ELSE b

MathMax(a, b) ==
  IF a.k = "nan" \/ b.k = "nan" THEN NaN ELSE IF XLeq(a, b) THEN b ELSE a

\* useState(1), useState({ x: 0, y: 0 }); the window is not known yet
NoView == [zoom |-> Whole(1), offset |-> [x |-> Whole(0), y |-> Whole(0)],
           innerWidth |-> 0, innerHeight |-> 0,
           event |-> "none", pointer |-> [x |-> 0, y |-> 0], steps |-> 0]

\* no gesture yet
NoDrag == [pc |-> "idle", nodeId |-> Null, node |-> NoNode, sent |-> [x |-> 0, y |-> 0],
           dragged |-> [x |-> 0, y |-> 0], count |-> 0]

\* error.message as the words it is made of; includes() looks for a phrase
Includes(message, phrase) ==
  \E i \in 1..(Len(message) - Len(phrase) + 1) :
    SubSeq(message, i, i + Len(phrase) - 1) = phrase

LowerWord(w) ==
  CASE w = "Request" -> "request"
    [] w = "Network" -> "network"
    [] w = "Rate" -> "rate"
    [] w = "Failed" -> "failed"
    [] w = "ETIMEDOUT" -> "etimedout"
    [] w = "Unexpected" -> "unexpected"
    [] OTHER -> w

toLowerCase(message) == [i \in DOMAIN message |-> LowerWord(message[i])]

NoThrown == [code |-> "none", message |-> <<>>]
NoOutcome == [kind |-> "none", status |-> 0, content |-> FALSE, error |-> NoThrown]
NoResponse == [status |-> 0, code |-> "none"]

NoLlm == [pc |-> "idle", attempt |-> 0, lastError |-> NoThrown, log |-> <<>>,
          backoffs |-> 0, res |-> NoResponse, requests |-> 0]

NoRetry == [pc |-> "idle", fn |-> "none", i |-> 0, log |-> <<>>, slept |-> <<>>,
            thrown |-> NoThrown, calls |-> 0]

NoRequest == [kind |-> "none", route |-> "none", caller |-> "none", target |-> Null, status |-> 0]
NoSrv == [Board |-> <<>>, Node |-> <<>>, Edge |-> {}, res |-> NoRequest, count |-> 0]

NoCalc == [pc |-> "idle", allNodes |-> <<>>, parentNodeId |-> Null,
           result |-> [x |-> 0, y |-> 0], placed |-> 0]

InitOther ==
  /\ del = NoDel /\ drag = NoDrag /\ view = NoView /\ llm = NoLlm /\ retry = NoRetry
  /\ srv = NoSrv /\ calc = NoCalc

Init ==
  /\ dbNodes = <<>>
  /\ dbEdges = {}
  /\ nextId = 1
  /\ currentBoard = Null
  /\ nodes = <<>>
  /\ edges = <<>>
  /\ isGenerating = FALSE
  /\ generatingNodeId = Null
  /\ error = NoError
  /\ reqs = [s \in Slots |-> Idle]
  /\ lastDelete = DeleteResponse(<<>>, {})
  /\ failedGen = {}
  /\ walk = NoWalk
  /\ InitOther

\* the client's flows; a store call fails only on a foreign key or a missing row,
\* the text generation may fail at any time
Flows ==
  \/ CreateBoard(QuestionLens)
  \/ AddRootQuestion(QuestionLens)
  \/ HandleAddFollowup(QuestionLens)
  \/ \E s \in Slots :
       \/ RootCreateOk(s)
       \/ RootUpdateOk(s) \/ RootUpdateFail(s, FALSE)
       \/ FollowupCreateOk(s) \/ FollowupCreateFail(s, FALSE)
       \/ FollowupEdgeOk(s) \/ FollowupEdgeFail(s, FALSE)
       \/ GenStart(s)
       \/ GenCreateOk(s, ResponseLens) \/ GenCreateFail(s)
       \/ GenEdgeOk(s) \/ GenEdgeFail(s, FALSE)

\* requests to POST /api/nodes/delete, for an id the store has handed out
Deletes ==
  \E nodeId \in 1..MaxNodes :
    \/ DeleteNotFound(nodeId)
    \/ DeleteNotQuestion(nodeId)
    \/ DeleteQuestion(nodeId)

Next == Flows \/ Deletes

Spec == Init /\ [][Next]_vars

\* ------------------------------------------------------------ properties
\* The question row that a step deletes (the handler is the only writer that
\* removes rows; its other removed row is the paired answer).
DeletesQuestion(q) ==
  /\ q \in Ids(dbNodes) /\ q \notin Ids(dbNodes')
  /\ IsQuestion(dbNodes[q].type)

ChildrenIds(db, id) == {i \in Ids(db) : db[i].parentId = id}

\* C1: no surviving row has a parentId that is the id of a deleted row.
C1_NoDanglingParent ==
  \A i \in Ids(dbNodes) : dbNodes[i].parentId \notin deleted

\* a question with an answer and a direct follow-up was deleted: the follow-up,
\* which the handler did not reparent, survives (the stale list still shows its
\* old parent)
C1_Witness ==
  /\ Len(lastDelete.deletedNodes) = 2
  /\ \E i \in Ids(dbNodes) :
       /\ dbNodes[i].type = "followup_question"
       /\ i \notin lastDelete.reparentedChildren
       /\ FindNode(nodes, i).parent_id = lastDelete.deletedNodes[1]
       /\ dbNodes[i].parentId = Null

\* C2: every row's rootId is its own id or the id of an existing root_question
\* row (a root being created has no rootId until its update is done).
BeingCreated == {reqs[s].node.id : s \in {t \in Slots : reqs[t].pc = "update"}}

C2_RootIdDesignatesRoot ==
  \A i \in Ids(dbNodes) \ BeingCreated :
    \/ dbNodes[i].rootId = i
    \/ /\ dbNodes[i].rootId \in Ids(dbNodes)
       /\ dbNodes[dbNodes[i].rootId].type = "root_question"

\* C3: deleting a root question R whose only child is its answer A, the
\* children of A being unanswered follow-ups F and nothing else belonging to R,
\* removes exactly R and A, rewrites exactly the rows of F with parentId null
\* and rootId their own id, and answers with [R, A] and F.
RootWithAnswerScenario(q, a) ==
  /\ dbNodes[q].type = "root_question"
  /\ ChildrenIds(dbNodes, q) = {a}
  /\ dbNodes[a].type \in AnswerTypes
  /\ ChildrenIds(dbNodes, a) # {}
  /\ \A f \in ChildrenIds(dbNodes, a) :
       dbNodes[f].type = "followup_question" /\ ChildrenIds(dbNodes, f) = {}
  /\ {i \in Ids(dbNodes) : dbNodes[i].rootId = q} = {q, a} \cup ChildrenIds(dbNodes, a)

C3_DeleteRootStep ==
  \A q \in 1..MaxNodes, a \in 1..MaxNodes :
    (DeletesQuestion(q) /\ a \in Ids(dbNodes) /\ RootWithAnswerScenario(q, a)) =>
      LET F == ChildrenIds(dbNodes, a)
      IN /\ Ids(dbNodes') = Ids(dbNodes) \ {q, a}
         /\ \A f \in F :
              dbNodes'[f] = [dbNodes[f] EXCEPT !.parentId = Null, !.rootId = f]
         /\ \A i \in Ids(dbNodes') \ F : dbNodes'[i] = dbNodes[i]
         /\ lastDelete' = DeleteResponse(<<q, a>>, F)

C3_DeleteRoot == [][C3_DeleteRootStep]_vars

\* a root and its answer have been deleted and two follow-ups of the answer
\* promoted: each is now its own root, without a parent
C3_Witness ==
  /\ Len(lastDelete.deletedNodes) = 2
  /\ Cardinality(lastDelete.reparentedChildren) = 2
  /\ FindNode(nodes, lastDelete.deletedNodes[1]).type = "root_question"
  /\ \A f \in lastDelete.reparentedChildren :
       /\ f \in Ids(dbNodes)
       /\ dbNodes[f].parentId = Null /\ dbNodes[f].rootId = f
       /\ FindNode(nodes, f).parent_id = lastDelete.deletedNodes[2]

\* C4: deleting a question that has a parent removes the question and its
\* answer, if it has one, and gives every reparented follow-up the parentId
\* and the rootId of the deleted question.
C4_DeleteNonRootStep ==
  \A q \in 1..MaxNodes :
    (DeletesQuestion(q) /\ dbNodes[q].parentId # Null) =>
      /\ lastDelete'.deletedNodes[1] = q
      /\ Len(lastDelete'.deletedNodes) \in {1, 2}
      /\ Ids(dbNodes) \ Ids(dbNodes') =
           {lastDelete'.deletedNodes[k] : k \in 1..Len(lastDelete'.deletedNodes)}
      /\ Len(lastDelete'.deletedNodes) = 2 =>
           lastDelete'.deletedNodes[2] \in AnswerNodesOf(dbNodes, q)
      /\ AnswerNodesOf(dbNodes, q) # {} => Len(lastDelete'.deletedNodes) = 2
      /\ \A f \in lastDelete'.reparentedChildren :
           /\ f \in Ids(dbNodes')
           /\ dbNodes'[f].parentId = dbNodes[q].parentId
           /\ dbNodes'[f].rootId = dbNodes[q].rootId

NextCalls == Next \/ GenerateAIResponse(QuestionLens)

SpecCalls == Init /\ [][NextCalls]_vars

\* C5: two calls of generateAIResponse for the same parent that are in flight
\* together never both create an answer node.
C5_OneAnswerForOverlappingCalls ==
  \A s \in Slots, t \in Slots :
    (/\ s # t
     /\ reqs[s].kind = "gen" /\ reqs[t].kind = "gen"
     /\ reqs[s].parentNodeId = reqs[t].parentNodeId)
    => ~(reqs[s].node # NoNode /\ reqs[t].node # NoNode)

\* ------------------------------------------------- failing server calls
\* The flows when any call to the Node or Edge API may fail (network, 401, 500).
NextFail ==
  \/ CreateBoard(QuestionLens)
  \/ AddRootQuestion(QuestionLens)
  \/ HandleAddFollowup(QuestionLens)
  \/ \E s \in Slots :
       \/ RootCreateOk(s) \/ RootCreateFail(s)
       \/ RootUpdateOk(s) \/ RootUpdateFail(s, TRUE)
       \/ FollowupCreateOk(s) \/ FollowupCreateFail(s, TRUE)
       \/ FollowupEdgeOk(s) \/ FollowupEdgeFail(s, TRUE)
       \/ GenStart(s)
       \/ GenCreateOk(s, ResponseLens) \/ GenCreateFail(s)
       \/ GenEdgeOk(s) \/ GenEdgeFail(s, TRUE)

SpecFail == Init /\ [][NextFail]_vars

\* C6: a generation that failed has left no answer node in the store (so no
\* answer node is stored without its edge).
C6_FailedGenerationCreatesNothing ==
  \A id \in failedGen : id \notin Ids(dbNodes)

\* ------------------------------------------------------------ placements
\* The flows one at a time: a handler is called when no other is in flight, so
\* every position is computed on a list that holds all the nodes placed before.
\* No call fails except the text generation; nothing is deleted.
LayoutQuestionLens == {30, 480, 600}
LayoutResponseLens == {400, 1200}

AllIdle == \A s \in Slots : reqs[s] = Idle

NextLayout ==
  \/ AllIdle /\ CreateBoard(LayoutQuestionLens)
  \/ AllIdle /\ AddRootQuestion(LayoutQuestionLens)
  \/ AllIdle /\ HandleAddFollowup(LayoutQuestionLens)
  \/ \E s \in Slots :
       \/ RootCreateOk(s)
       \/ RootUpdateOk(s)
       \/ FollowupCreateOk(s)
       \/ FollowupEdgeOk(s)
       \/ GenStart(s)
       \/ GenCreateOk(s, LayoutResponseLens) \/ GenCreateFail(s)
       \/ GenEdgeOk(s)

SpecLayout == Init /\ [][NextLayout]_vars

\* C7: children placed one after the other under the same parent do not
\* overlap: each is at least 40 below the bottom of every child placed before.
C7_ChildrenStacked ==
  \A i \in 1..Len(nodes), j \in 1..Len(nodes) :
    (i < j /\ nodes[i].parent_id # Null /\ nodes[i].parent_id = nodes[j].parent_id)
    => nodes[j].y >= nodes[i].y + nodes[i].height + VerticalSpacing

\* three follow-ups of different heights stacked under one parent
C7_Witness ==
  \E i \in 1..Len(nodes), j \in 1..Len(nodes), k \in 1..Len(nodes) :
    /\ i < j /\ j < k
    /\ nodes[i].parent_id # Null
    /\ nodes[i].parent_id = nodes[j].parent_id /\ nodes[j].parent_id = nodes[k].parent_id
    /\ nodes[i].height > nodes[j].height
    /\ nodes[k].y = nodes[j].y + nodes[j].height + VerticalSpacing
    /\ nodes[j].y = nodes[i].y + nodes[i].height + VerticalSpacing

\* the bottom of the lowest of the first k roots
MaxBottom(roots, k) ==
  CHOOSE m \in {roots[j].y + roots[j].height : j \in 1..k} :
    \A j \in 1..k : roots[j].y + roots[j].height <= m

\* C8: root questions are all at x = 100, each 100 below the lowest bottom of
\* the roots before it, so their y strictly increases.
C8_RootsStacked ==
  LET roots == ExistingRoots(nodes)
  IN \A k \in 1..Len(roots) :
       /\ roots[k].x = 100
       /\ k > 1 => /\ roots[k].y = MaxBottom(roots, k - 1) + 100
                   /\ roots[k].y > roots[k - 1].y

\* three root questions have been placed, the third below the second
C8_Witness ==
  LET roots == ExistingRoots(nodes)
  IN /\ Len(roots) = 3
     /\ roots[3].y = roots[2].y + roots[2].height + RootGap
     /\ roots[2].y = roots[1].y + roots[1].height + RootGap

\* ------------------------------------------------------------ buildContext
\* buildContext(currentNodeId, rootId, nodesSnapshot) on a list it is handed:
\* the list is an input, so the lists below also hold what a damaged store could
\* hand out: a parent_id that designates no node of the list, and parent_id
\* links that form a cycle.  Node i is a question when i is odd, an answer when
\* i is even; its parent is none, i - 1 or i + 1 (WalkNodes + 1 is no node).
WalkAnswerLens == {150, 250}
WalkQuestionLens == {300}

WalkParent(i, c) == IF c = 0 THEN Null ELSE IF c = 1 THEN i - 1 ELSE i + 1

WalkNode(i, c, alen, qlen) ==
  LET parentId == WalkParent(i, c)
      type == IF i % 2 = 0 THEN "followup_answer"
              ELSE IF parentId = Null THEN "root_question" ELSE "followup_question"
  IN nodeToDTO(Row(i, type, parentId, Null, 0, 0, NodeWidth, RootHeight,
                   IF i % 2 = 0 THEN alen ELSE qlen))

WalkLists ==
  {[i \in 1..WalkNodes |-> WalkNode(i, c[i], alen, qlen)] :
     c \in [1..WalkNodes -> {0, 1, 2}], alen \in WalkAnswerLens, qlen \in WalkQuestionLens}

\* pathNodes.unshift(node).  The array is recorded up to WalkNodes entries: a
\* walk that has taken more has visited a node twice and goes on for ever.
Unshift(pathNodes, node) ==
  IF Len(pathNodes) < WalkNodes THEN <<node>> \o pathNodes ELSE pathNodes

\* node.type.includes('question') ? 'Q' : 'A'
Prefix(node) == IF IsQuestion(node.type) THEN "Q" ELSE "A"

\* `${prefix}${i + 1}: ${node.content}` for every node of the path
ThreadLines(pathNodes) ==
  [i \in 1..Len(pathNodes) |->
     [prefix |-> Prefix(pathNodes[i]), index |-> i, len |-> pathNodes[i].len]]

\* allNodes.filter(n => n.parent_id === parent_id && n.id !== currentNodeId)
RECURSIVE SiblingsOf(_, _, _)
SiblingsOf(allNodes, parentId, currentNodeId) ==
  IF allNodes = <<>> THEN <<>>
  ELSE IF Head(allNodes).parent_id = parentId /\ Head(allNodes).id # currentNodeId
       THEN <<Head(allNodes)>> \o SiblingsOf(Tail(allNodes), parentId, currentNodeId)
       ELSE SiblingsOf(Tail(allNodes), parentId, currentNodeId)

\* the "Related Ideas" lines: the first two siblings of the current node
RelatedLines(allNodes, currentNodeId) ==
  LET currentNode == FindNode(allNodes, currentNodeId)
      siblings == IF currentNode # NoNode /\ currentNode.parent_id # Null
                  THEN SiblingsOf(allNodes, currentNode.parent_id, currentNodeId)
                  ELSE <<>>
      first == SubSeq(siblings, 1, Min(2, Len(siblings)))
  IN [i \in 1..Len(first) |-> [prefix |-> Prefix(first[i]), len |-> first[i].len]]

treeVars == <<dbNodes, dbEdges, nextId, currentBoard, nodes, edges, isGenerating,
              generatingNodeId, error, reqs, lastDelete, failedGen, otherVars>>

\* the call: let currentId = currentNodeId
BuildContext(currentNodeId) ==
  /\ walk.pc = "idle"
  /\ walk' = [walk EXCEPT !.pc = "walking", !.currentId = currentNodeId]
  /\ UNCHANGED treeVars

\* one turn of while (currentId) that finds the node
WalkStep ==
  /\ walk.pc = "walking"
  /\ walk.currentId # Null
  /\ LET node == FindNode(walk.allNodes, walk.currentId)
     IN /\ node # NoNode
        /\ walk' = [walk EXCEPT !.pathNodes = Unshift(@, node),
                                !.currentId = node.parent_id]
  /\ UNCHANGED treeVars

\* what follows the loop: the thread and the related lines are composed
Composed(currentNodeId) ==
  [walk EXCEPT !.pc = "done",
               !.thread = ThreadLines(walk.pathNodes),
               !.related = RelatedLines(walk.allNodes, currentNodeId)]

\* the turn that finds no node: break
WalkBreak ==
  /\ walk.pc = "walking"
  /\ walk.currentId # Null
  /\ FindNode(walk.allNodes, walk.currentId) = NoNode
  /\ walk' = Composed(IF walk.pathNodes = <<>> THEN walk.currentId
                      ELSE walk.pathNodes[Len(walk.pathNodes)].id)
  /\ UNCHANGED treeVars

\* currentId is null: the loop is over
WalkEnd ==
  /\ walk.pc = "walking"
  /\ walk.currentId = Null
  /\ walk' = Composed(walk.pathNodes[Len(walk.pathNodes)].id)
  /\ UNCHANGED treeVars

InitWalk ==
  /\ dbNodes = <<>>
  /\ dbEdges = {}
  /\ nextId = 1
  /\ currentBoard = Null
  /\ nodes = <<>>
  /\ edges = <<>>
  /\ isGenerating = FALSE
  /\ generatingNodeId = Null
  /\ error = NoError
  /\ reqs = [s \in Slots |-> Idle]
  /\ lastDelete = DeleteResponse(<<>>, {})
  /\ failedGen = {}
  /\ walk \in {[NoWalk EXCEPT !.allNodes = l] : l \in WalkLists}
  /\ InitOther

NextWalk ==
  \/ \E currentNodeId \in 1..WalkNodes : BuildContext(currentNodeId)
  \/ WalkStep
  \/ WalkBreak
  \/ WalkEnd

SpecWalk == InitWalk /\ [][NextWalk]_vars

\* the same, the loop being run for as long as it has a turn to take
SpecWalkFair == SpecWalk /\ WF_vars(NextWalk)

\* C9: when buildContext has walked from a question up a chain deeper than 3
\* hops, its thread has at most the lines of 3 hops (beside the current
\* question and the root topic), and none of its answer lines is longer than
\* 200 characters and an ellipsis.
C9_ThreadBounded ==
  (/\ walk.pc = "done"
   /\ Len(walk.pathNodes) > 3 + 1
   /\ IsQuestion(walk.pathNodes[Len(walk.pathNodes)].type)) =>
    /\ Len(walk.thread) <= 3 + 2
    /\ \A i \in 1..Len(walk.thread) :
         walk.thread[i].prefix = "A" => walk.thread[i].len <= 200 + 3

\* C10: a parent-chain walk that has begun comes to its end, whatever the list.
C10_WalkTerminates == (walk.pc = "walking") ~> (walk.pc = "done")

\* ------------------------------------- POST /api/nodes/delete (app router)
\* The route handler of src/app/api/nodes: the caller is authenticated and owns
\* the board; the node's type is not read.  Its edges are deleted, then the row.
AppDeleteNotFound(nodeId) ==
  /\ nodeId \in deleted
  /\ UNCHANGED vars

AppDeleteNode(nodeId) ==
  /\ nodeId \in Ids(dbNodes)
  /\ dbEdges' = CascadeEdges(dbEdges, nodeId)
  /\ dbNodes' = DeleteNodeRow(dbNodes, nodeId)
  /\ UNCHANGED <<nextId, clientVars, lastDelete, walk, otherVars>>

AppDeletes ==
  \E nodeId \in 1..MaxNodes :
    \/ AppDeleteNotFound(nodeId)
    \/ AppDeleteNode(nodeId)

\* the board's flows with the delete requests of both endpoints
NextApi == Next \/ AppDeletes

SpecApi == Init /\ [][NextApi]_vars

\* C11: a delete request for a node that is not a question changes nothing: a
\* row that is not a question leaves the store only as the answer of the
\* question deleted in the same step, and then no other row is touched.
C11_NonQuestionStep ==
  \A i \in 1..MaxNodes :
    (i \in Ids(dbNodes) /\ ~IsQuestion(dbNodes[i].type) /\ i \notin Ids(dbNodes')) =>
      \E q \in Ids(dbNodes) : DeletesQuestion(q) /\ dbNodes[i].parentId = q

C11_NonQuestionRejected == [][C11_NonQuestionStep]_vars

\* ------------------------------ POST /api/nodes/delete (pages), write by write
\* The handler is not a transaction: each of its writes is a statement of its
\* own, and the board's flows go on between two of them.  One request is
\* between its writes at a time; it is the only one that removes rows, so none
\* of its statements fails on a missing row.
DelPending == del.pc \in {"reparent", "answer", "question", "edges"}

\* the statement that follows the reparenting of the children still to do
AfterReparent(children, answerId) ==
  IF children # {} THEN "reparent" ELSE IF answerId # Null THEN "answer" ELSE "question"

\* steps 1 to 3: the reads (target, answer, follow-up children)
DelBegin(nodeId) ==
  /\ ~DelPending
  /\ nodeId \in Ids(dbNodes)
  /\ IsQuestion(dbNodes[nodeId].type)
  /\ \E answerId \in IF AnswerNodesOf(dbNodes, nodeId) = {} THEN {Null}
                     ELSE AnswerNodesOf(dbNodes, nodeId) :
       del' = [pc |-> AfterReparent(FollowupChildren(dbNodes, nodeId, answerId), answerId),
               nodeId |-> nodeId, answerId |-> answerId,
               children |-> FollowupChildren(dbNodes, nodeId, answerId),
               targetParentId |-> dbNodes[nodeId].parentId,
               targetRootId |-> dbNodes[nodeId].rootId,
               reparented |-> {}, writes |-> <<>>]
  /\ UNCHANGED <<storeVars, clientVars, lastDelete, walk, notDel>>

\* step 4: prisma.node.update of one follow-up child
DelReparent ==
  /\ del.pc = "reparent"
  /\ \E child \in del.children :
       /\ dbNodes' = Reparent(dbNodes, {child}, del.targetParentId, del.targetRootId)
       /\ del' = [del EXCEPT !.pc = AfterReparent(del.children \ {child}, del.answerId),
                             !.children = @ \ {child},
                             !.reparented = @ \cup {child},
                             !.writes = Append(@, "reparent")]
  /\ UNCHANGED <<dbEdges, nextId, clientVars, lastDelete, walk, notDel>>

\* step 5: prisma.node.delete of the answer
DelAnswer ==
  /\ del.pc = "answer"
  /\ dbNodes' = DeleteNodeRow(dbNodes, del.answerId)
  /\ dbEdges' = CascadeEdges(dbEdges, del.answerId)
  /\ del' = [del EXCEPT !.pc = "question", !.writes = Append(@, "answer")]
  /\ UNCHANGED <<nextId, clientVars, lastDelete, walk, notDel>>

\* step 6: prisma.node.delete of the question
DelQuestion ==
  /\ del.pc = "question"
  /\ dbNodes' = DeleteNodeRow(dbNodes, del.nodeId)
  /\ dbEdges' = CascadeEdges(dbEdges, del.nodeId)
  /\ del' = [del EXCEPT !.pc = "edges", !.writes = Append(@, "question")]
  /\ UNCHANGED <<nextId, clientVars, lastDelete, walk, notDel>>

\* prisma.edge.deleteMany({ OR: [sourceId, targetId of the question and the answer] })
EdgeDeleteMany(es, nodeId, answerId) ==
  {e \in es : {e.sourceId, e.targetId} \cap {nodeId, answerId} = {}}

\* step 7 and the 200 response
DelEdges ==
  /\ del.pc = "edges"
  /\ dbEdges' = EdgeDeleteMany(dbEdges, del.nodeId, del.answerId)
  /\ lastDelete' = DeleteResponse(
                     IF del.answerId # Null THEN <<del.nodeId, del.answerId>>
                     ELSE <<del.nodeId>>,
                     del.reparented)
  /\ del' = [NoDel EXCEPT !.pc = "done", !.writes = Append(del.writes, "edges")]
  /\ UNCHANGED <<dbNodes, nextId, clientVars, walk, notDel>>

NextSteps ==
  \/ Flows
  \/ \E nodeId \in 1..MaxNodes :
       \/ DeleteNotFound(nodeId)
       \/ DeleteNotQuestion(nodeId)
       \/ DelBegin(nodeId)
  \/ DelReparent
  \/ DelAnswer
  \/ DelQuestion
  \/ DelEdges

SpecSteps == Init /\ [][NextSteps]_vars

\* the place of a write in the handler's order
WriteRank(w) ==
  IF w = "reparent" THEN 1 ELSE IF w = "answer" THEN 2
  ELSE IF w = "question" THEN 3 ELSE 4

\* C12: the writes of a question deletion come in the order reparenting
\* updates, answer delete, question delete, edge cleanup, and in no state,
\* between two writes or after them, does a surviving row or edge name a
\* deleted row.
C12_OrderedWritesNoDangling ==
  /\ \A i \in 1..Len(del.writes), j \in 1..Len(del.writes) :
       i < j => /\ WriteRank(del.writes[i]) <= WriteRank(del.writes[j])
                /\ WriteRank(del.writes[i]) = WriteRank(del.writes[j])
                     => del.writes[i] = "reparent"
  /\ \A i \in Ids(dbNodes) :
       dbNodes[i].parentId \notin deleted /\ dbNodes[i].rootId \notin deleted
  /\ \A e \in dbEdges : e.sourceId \in Ids(dbNodes) /\ e.targetId \in Ids(dbNodes)

\* between the answer delete and the question delete of a request that has
\* reparented a follow-up: the answer is gone, the question is still stored
C12_Witness ==
  /\ del.pc = "question"
  /\ del.writes = <<"reparent", "answer">>
  /\ del.answerId \in deleted
  /\ del.nodeId \in Ids(dbNodes)
  /\ \E e \in dbEdges : e.targetId = del.nodeId \/ e.sourceId = del.nodeId

\* C13: every question has at most one child that is an answer, and the parent
\* of every answer is a question of the store.
C13_OneAnswerUnderQuestion ==
  /\ \A q \in Ids(dbNodes) :
       IsQuestion(dbNodes[q].type) => Cardinality(AnswerNodesOf(dbNodes, q)) <= 1
  /\ \A a \in Ids(dbNodes) :
       dbNodes[a].type \in AnswerTypes =>
         /\ dbNodes[a].parentId \in Ids(dbNodes)
         /\ IsQuestion(dbNodes[dbNodes[a].parentId].type)

\* ------------------------------------------------------------- node drag
\* handleNodeMouseDown and the two listeners it installs.  The canvas is at
\* zoom 1 and offset 0 here, so the pointer's move in world coordinates is its
\* move on the screen.  The flows and the gestures are taken one at a time.
DragDeltas == {[dx |-> 60, dy |-> 0], [dx |-> -30, dy |-> 45]}

DragPending == drag.pc \in {"dragging", "saving"}

\* setNodes(prev => prev.map(n => n.id === nodeId ? { ...n, x: newX, y: newY } : n))
MoveNode(allNodes, nodeId, newX, newY) ==
  [i \in 1..Len(allNodes) |->
     IF allNodes[i].id = nodeId THEN [allNodes[i] EXCEPT !.x = newX, !.y = newY]
     ELSE allNodes[i]]

\* mousedown on the card of nodes[i]: node is what nodes.find returns in the
\* closure that the two listeners share
HandleNodeMouseDown(i) ==
  /\ ~DragPending
  /\ drag.count < MaxDrags
  /\ i \in 1..Len(nodes)
  /\ drag' = [pc |-> "dragging", nodeId |-> nodes[i].id, node |-> nodes[i],
              sent |-> [x |-> 0, y |-> 0],
              dragged |-> [x |-> nodes[i].x, y |-> nodes[i].y],
              count |-> drag.count + 1]
  /\ UNCHANGED <<storeVars, clientVars, lastDelete, walk, notDrag>>

\* handleMouseMove: newX = pointer - offsetX, offsetX = start pointer - node.x
HandleMouseMove(d) ==
  /\ drag.pc = "dragging"
  /\ LET newX == drag.node.x + d.dx
         newY == drag.node.y + d.dy
     IN /\ nodes' = MoveNode(nodes, drag.nodeId, newX, newY)
        /\ drag' = [drag EXCEPT !.dragged = [x |-> newX, y |-> newY]]
  /\ UNCHANGED <<storeVars, currentBoard, edges, flagVars, reqs, lastDelete,
                 failedGen, walk, notDrag>>

\* handleMouseUp up to its await: nodes is the list of the closure, the one
\* the gesture started with
HandleMouseUp ==
  /\ drag.pc = "dragging"
  /\ LET node == FindNode(<<drag.node>>, drag.nodeId)
     IN drag' = [drag EXCEPT !.pc = "saving", !.sent = [x |-> node.x, y |-> node.y]]
  /\ UNCHANGED <<storeVars, clientVars, lastDelete, walk, notDrag>>

\* PUT /api/nodes?id=...: data.x = Math.floor(body.x), data.y = Math.floor(body.y)
UpdatePosition(db, id, pos) == [db EXCEPT ![id].x = pos.x, ![id].y = pos.y]

\* Node.update resolves
DragSaveOk ==
  /\ drag.pc = "saving"
  /\ drag.nodeId \in Ids(dbNodes)
  /\ dbNodes' = UpdatePosition(dbNodes, drag.nodeId, drag.sent)
  /\ error' = NoError
  /\ drag' = [drag EXCEPT !.pc = "saved"]
  /\ UNCHANGED <<dbEdges, nextId, currentBoard, nodes, edges, isGenerating,
                 generatingNodeId, reqs, lastDelete, failedGen, walk, notDrag>>

\* Node.update rejects
DragSaveFail ==
  /\ drag.pc = "saving"
  /\ error' = "Failed to save node position"
  /\ drag' = [drag EXCEPT !.pc = "failed"]
  /\ UNCHANGED <<storeVars, currentBoard, nodes, edges, isGenerating,
                 generatingNodeId, reqs, lastDelete, failedGen, walk, notDrag>>

NextDrag ==
  \/ ~DragPending /\ AllIdle /\ CreateBoard(QuestionLens)
  \/ ~DragPending /\ AllIdle /\ AddRootQuestion(QuestionLens)
  \/ ~DragPending /\ AllIdle /\ HandleAddFollowup(QuestionLens)
  \/ \E s \in Slots :
       \/ RootCreateOk(s)
       \/ RootUpdateOk(s)
       \/ FollowupCreateOk(s)
       \/ FollowupEdgeOk(s)
       \/ GenStart(s)
       \/ GenCreateOk(s, ResponseLens) \/ GenCreateFail(s)
       \/ GenEdgeOk(s)
  \/ AllIdle /\ \E i \in 1..MaxNodes : HandleNodeMouseDown(i)
  \/ \E d \in DragDeltas : HandleMouseMove(d)
  \/ HandleMouseUp
  \/ DragSaveOk
  \/ DragSaveFail

SpecDrag == Init /\ [][NextDrag]_vars

\* C14: the position sent to the store when a gesture ends is the position the
\* node has in the list at that time, and when the save fails the error is
\* reported and the node stays where it was dragged.
C14_SavedPositionIsDragged ==
  /\ drag.pc = "saving" =>
       /\ drag.sent.x = FindNode(nodes, drag.nodeId).x
       /\ drag.sent.y = FindNode(nodes, drag.nodeId).y
  /\ drag.pc = "failed" =>
       /\ error = "Failed to save node position"
       /\ FindNode(nodes, drag.nodeId).x = drag.dragged.x
       /\ FindNode(nodes, drag.nodeId).y = drag.dragged.y

\* -------------------------------------------------------- zoom and fit
\* The canvas view.  The window's size is the environment's: it is drawn at the
\* start, like the node list that fitToContent reads (loadBoard sets it from
\* the store, where a width or a height may be any integer the API was sent).
MinZoom == Num(1, 10)
MaxZoom == Whole(3)
MaxFitZoom == Whole(2)
ZoomFactor == Num(12, 10)

WindowWidths == {200, 1280}
WindowHeights == {300, 800}
WheelDeltas == {-100, 100, 250}
Pointers == {[x |-> 0, y |-> 0], [x |-> 300, y |-> 120]}

ViewNode(id, x, y, width, height) ==
  nodeToDTO(Row(id, "root_question", Null, id, x, y, width, height, 30))

ViewLists ==
  {<<>>} \cup
  {<<ViewNode(1, RootX, FirstRootY, w, h)>> : w \in {0, NodeWidth}, h \in {0, RootHeight}} \cup
  {<<ViewNode(1, RootX, FirstRootY, NodeWidth, RootHeight),
     ViewNode(2, RootX, FirstRootY + RootHeight + RootGap, NodeWidth, RootHeight)>>}

\* one more event of the view
Stepped(event, pointer) ==
  [view EXCEPT !.event = event, !.pointer = pointer, !.steps = @ + 1]

viewFrame == <<dbNodes, dbEdges, nextId, currentBoard, nodes, edges, isGenerating,
               generatingNodeId, error, reqs, lastDelete, failedGen, walk, notView>>

\* handleWheel: newZoom = Math.min(Math.max(0.1, zoom * (1 + delta)), 3)
WheelZoom(zoom, deltaY) ==
  LET delta == XMul(Whole(deltaY), Num(-2, 1000))
  IN MathMin(MathMax(MinZoom, XMul(zoom, XAdd(Whole(1), delta))), MaxZoom)

\* a wheel zoom that leaves the offset where it is
WheelSameOffset(o, p, zoom, newZoom) == o

\* handleWheel: offset + (worldPosAfterZoom - worldPosBeforeZoom) * newZoom, on one axis
WheelOffset(o, p, zoom, newZoom) ==
  LET worldPosBeforeZoom == XDiv(XSub(p, o), zoom)
      worldPosAfterZoom == XDiv(XSub(p, o), newZoom)
  IN XAdd(o, XMul(XSub(worldPosAfterZoom, worldPosBeforeZoom), newZoom))

HandleWheel(pointer, deltaY) ==
  /\ view.steps < MaxViewSteps
  /\ LET newZoom == WheelZoom(view.zoom, deltaY)
     IN view' = IF newZoom # view.zoom
                THEN [Stepped("wheel", pointer) EXCEPT
                        !.zoom = newZoom,
                        !.offset = [x |-> WheelOffset(view.offset.x, Whole(pointer.x),
                                                      view.zoom, newZoom),
                                    y |-> WheelOffset(view.offset.y, Whole(pointer.y),
                                                      view.zoom, newZoom)]]
                ELSE Stepped("wheel", pointer)
  /\ UNCHANGED viewFrame

\* zoomIn: Math.min(zoom * 1.2, 3)
ZoomIn ==
  /\ view.steps < MaxViewSteps
  /\ view' = [Stepped("zoomIn", view.pointer) EXCEPT
                !.zoom = MathMin(XMul(view.zoom, ZoomFactor), MaxZoom)]
  /\ UNCHANGED viewFrame

\* zoomOut: Math.max(zoom / 1.2, 0.1)
ZoomOut ==
  /\ view.steps < MaxViewSteps
  /\ view' = [Stepped("zoomOut", view.pointer) EXCEPT
                !.zoom = MathMax(XDiv(view.zoom, ZoomFactor), MinZoom)]
  /\ UNCHANGED viewFrame

\* resetView
ResetView ==
  /\ view.steps < MaxViewSteps
  /\ view' = [Stepped("reset", view.pointer) EXCEPT
                !.zoom = Whole(1), !.offset = [x |-> Whole(0), y |-> Whole(0)]]
  /\ UNCHANGED viewFrame

\* nodes.reduce(..., { minX: Infinity, maxX: -Infinity, minY: Infinity, maxY: -Infinity })
RECURSIVE ReduceBounds(_, _, _)
ReduceBounds(allNodes, i, acc) ==
  IF i > Len(allNodes) THEN acc
  ELSE ReduceBounds(allNodes, i + 1,
         [minX |-> MathMin(acc.minX, Whole(allNodes[i].x)),
          maxX |-> MathMax(acc.maxX, Whole(allNodes[i].x + allNodes[i].width)),
          minY |-> MathMin(acc.minY, Whole(allNodes[i].y)),
          maxY |-> MathMax(acc.maxY, Whole(allNodes[i].y + allNodes[i].height))])

\* fitToContent on a list that is not empty: the new zoom and offset
FitView(allNodes, innerWidth, innerHeight) ==
  LET bounds == ReduceBounds(allNodes, 1,
                  [minX |-> PosInf, maxX |-> NegInf, minY |-> PosInf, maxY |-> NegInf])
      contentWidth == XSub(bounds.maxX, bounds.minX)
      contentHeight == XSub(bounds.maxY, bounds.minY)
      centerX == XAdd(bounds.minX, XDiv(contentWidth, Whole(2)))
      centerY == XAdd(bounds.minY, XDiv(contentHeight, Whole(2)))
      canvasWidth == Whole(innerWidth)
      canvasHeight == Whole(innerHeight - HeaderHeight)
      scaleX == XDiv(XSub(canvasWidth, Whole(Padding * 2)), contentWidth)
      scaleY == XDiv(XSub(canvasHeight, Whole(Padding * 2)), contentHeight)
      newZoom == MathMin(MathMax(MinZoom, MathMin(scaleX, scaleY)), MaxFitZoom)
  IN [zoom |-> newZoom,
      offset |-> [x |-> XSub(XDiv(canvasWidth, Whole(2)), XMul(centerX, newZoom)),
                  y |-> XSub(XDiv(XAdd(canvasHeight, Whole(HeaderHeight)), Whole(2)),
                             XMul(centerY, newZoom))]]

FitToContent ==
  /\ view.steps < MaxViewSteps
  /\ view' = IF nodes = <<>> THEN Stepped("fit", view.pointer)
             ELSE LET fit == FitView(nodes, view.innerWidth, view.innerHeight)
                  IN [Stepped("fit", view.pointer) EXCEPT
                        !.zoom = fit.zoom, !.offset = fit.offset]
  /\ UNCHANGED viewFrame

InitView ==
  /\ dbNodes = <<>>
  /\ dbEdges = {}
  /\ nextId = 1
  /\ currentBoard = Null
  /\ nodes \in ViewLists
  /\ edges = <<>>
  /\ isGenerating = FALSE
  /\ generatingNodeId = Null
  /\ error = NoError
  /\ reqs = [s \in Slots |-> Idle]
  /\ lastDelete = DeleteResponse(<<>>, {})
  /\ failedGen = {}
  /\ walk = NoWalk
  /\ del = NoDel
  /\ drag = NoDrag
  /\ view \in {[NoView EXCEPT !.innerWidth = w, !.innerHeight = h] :
                 w \in WindowWidths, h \in WindowHeights}
  /\ llm = NoLlm
  /\ retry = NoRetry
  /\ srv = NoSrv
  /\ calc = NoCalc

NextView ==
  \/ \E pointer \in Pointers, deltaY \in WheelDeltas : HandleWheel(pointer, deltaY)
  \/ ZoomIn
  \/ ZoomOut
  \/ ResetView
  \/ FitToContent

SpecView == InitView /\ [][NextView]_vars

\* C15: a wheel event, whether or not it changes the zoom, keeps the world point under the
\* pointer: (pointer - newOffset) / newZoom = (pointer - oldOffset) / oldZoom
\* on both axes.
C15_WheelStep ==
  (view'.event = "wheel" /\ view'.steps # view.steps) =>
    /\ XDiv(XSub(Whole(view'.pointer.x), view'.offset.x), view'.zoom)
         = XDiv(XSub(Whole(view'.pointer.x), view.offset.x), view.zoom)
    /\ XDiv(XSub(Whole(view'.pointer.y), view'.offset.y), view'.zoom)
         = XDiv(XSub(Whole(view'.pointer.y), view.offset.y), view.zoom)

C15_PointerFixed == [][C15_WheelStep]_vars

\* a wheel zoom with the pointer away from the origin has moved the offset
C15_Witness ==
  /\ view.event = "wheel"
  /\ view.pointer = [x |-> 300, y |-> 120]
  /\ view.zoom = Num(6, 5)
  /\ view.offset.x = Whole(-60)
  /\ view.offset.y = Whole(-24)

\* C16: fitToContent changes nothing on an empty list, and on a list of one
\* node gives a zoom in [0.1, 2] and a finite offset.
C16_FitStep ==
  (view'.event = "fit" /\ view'.steps # view.steps) =>
    /\ nodes = <<>> => (view'.zoom = view.zoom /\ view'.offset = view.offset)
    /\ Len(nodes) = 1 =>
         /\ IsFinite(view'.zoom)
         /\ XLeq(MinZoom, view'.zoom) /\ XLeq(view'.zoom, MaxFitZoom)
         /\ IsFinite(view'.offset.x) /\ IsFinite(view'.offset.y)

C16_FitDefined == [][C16_FitStep]_vars

\* -------------------------------------------------------- POST /api/llm
MaxLlmRequests == 2

UpstreamStatuses == {400, 401, 403, 429, 500, 503}

\* what the race of the upstream call and the 30 s timer can reject with
TimeoutError == [code |-> "none", message |-> <<"Request", "timeout", "after", "30", "seconds">>]
ThrownErrors ==
  {TimeoutError,
   [code |-> "ECONNRESET", message |-> <<"socket", "hang", "up">>],
   [code |-> "ETIMEDOUT", message |-> <<"connect", "ETIMEDOUT">>],
   [code |-> "none", message |-> <<"Network", "request", "failed">>],
   [code |-> "none", message |-> <<"Unexpected", "token">>]}

UpstreamOutcomes ==
  {[NoOutcome EXCEPT !.kind = "response", !.status = st] : st \in UpstreamStatuses} \cup
  {[NoOutcome EXCEPT !.kind = "response", !.status = 200, !.content = c] : c \in BOOLEAN} \cup
  {[NoOutcome EXCEPT !.kind = "throw", !.error = e] : e \in ThrownErrors}

Respond(status, code) == [status |-> status, code |-> code]

\* a status of the first attempt is never tried again
RetryStatusNever(status, attempt) == FALSE

\* the two branches that sleep and continue
RetryStatus(status, attempt) ==
  \/ status = 429 /\ attempt = 0
  \/ (status >= 500 /\ status < 600) /\ attempt = 0

\* the response for an unexpected status that is not retried
MapStatus(status) ==
  IF status = 401 \/ status = 403 THEN Respond(status, "auth_error")
  ELSE IF status = 429 THEN Respond(429, "rate_limited")
  ELSE IF status >= 500 /\ status < 600 THEN Respond(502, "model_unavailable")
  ELSE Respond(502, "model_error")

\* the catch block's test for a retry
RetryThrown(e, attempt) ==
  /\ attempt = 0
  /\ \/ e.code = "ECONNRESET"
     \/ e.code = "ETIMEDOUT"
     \/ Includes(toLowerCase(e.message), <<"network">>)
     \/ Includes(toLowerCase(e.message), <<"timeout">>)

\* after the loop: "All retries exhausted"
AfterLoop(lastError) ==
  IF lastError # NoThrown /\ Includes(lastError.message, <<"timeout">>)
  THEN Respond(504, "timeout")
  ELSE Respond(500, "connection_failed")

llmFrame == <<dbNodes, dbEdges, nextId, currentBoard, nodes, edges, isGenerating,
              generatingNodeId, error, reqs, lastDelete, failedGen, walk, notLlm>>

\* the handler up to the loop: method, token, body, imports
LlmBegin(method, hasToken, validBody, imported) ==
  /\ llm.pc \in {"idle", "done"}
  /\ llm.requests < MaxLlmRequests
  /\ LET fresh == [NoLlm EXCEPT !.requests = llm.requests + 1]
     IN llm' = IF method # "POST"
               THEN [fresh EXCEPT !.pc = "done", !.res = Respond(405, "method_not_allowed")]
               ELSE IF ~hasToken
               THEN [fresh EXCEPT !.pc = "done", !.res = Respond(500, "missing_env_var")]
               ELSE IF ~validBody
               THEN [fresh EXCEPT !.pc = "done", !.res = Respond(400, "invalid_input")]
               ELSE IF ~imported
               THEN [fresh EXCEPT !.pc = "done", !.res = Respond(500, "server_error")]
               ELSE [fresh EXCEPT !.pc = "attempt"]
  /\ UNCHANGED llmFrame

\* one pass of the loop body: the upstream call and what the handler makes of it
LlmAttempt(outcome) ==
  /\ llm.pc = "attempt"
  /\ LET called == [llm EXCEPT !.log = Append(@, outcome)]
     IN llm' =
          IF outcome.kind = "throw"
          THEN IF RetryThrown(outcome.error, llm.attempt)
               THEN [called EXCEPT !.lastError = outcome.error, !.pc = "sleep"]
               ELSE [called EXCEPT !.lastError = outcome.error, !.pc = "done",
                                   !.res = AfterLoop(outcome.error)]
          ELSE IF outcome.status # 200
          THEN IF RetryStatus(outcome.status, llm.attempt)
               THEN [called EXCEPT !.pc = "sleep"]
               ELSE [called EXCEPT !.pc = "done", !.res = MapStatus(outcome.status)]
          ELSE IF ~outcome.content
          THEN [called EXCEPT !.pc = "done", !.res = Respond(502, "empty_response")]
          ELSE [called EXCEPT !.pc = "done", !.res = Respond(200, "none")]
  /\ UNCHANGED llmFrame

\* await sleep(backoffMs); continue
LlmSleep ==
  /\ llm.pc = "sleep"
  /\ llm' = IF llm.attempt + 1 < 2
            THEN [llm EXCEPT !.backoffs = @ + 1, !.attempt = @ + 1, !.pc = "attempt"]
            ELSE [llm EXCEPT !.backoffs = @ + 1, !.attempt = @ + 1, !.pc = "done",
                             !.res = AfterLoop(llm.lastError)]
  /\ UNCHANGED llmFrame

NextLlm ==
  \/ \E method \in {"POST", "GET"}, hasToken \in BOOLEAN, validBody \in BOOLEAN,
        imported \in BOOLEAN : LlmBegin(method, hasToken, validBody, imported)
  \/ \E outcome \in UpstreamOutcomes : LlmAttempt(outcome)
  \/ LlmSleep

SpecLlm == Init /\ [][NextLlm]_vars

Is429(o) == o.kind = "response" /\ o.status = 429
Is5xx(o) == o.kind = "response" /\ o.status >= 500 /\ o.status < 600
IsAuth(o) == o.kind = "response" /\ o.status \in {401, 403}
IsTimeout(o) == o.kind = "throw" /\ o.error = TimeoutError

\* C17: a 429 or 5xx on the first attempt is followed by exactly one more
\* attempt, made after one backoff; a 401 or 403 ends the request at once; no
\* request makes more than 2 upstream attempts; a 429 on the second attempt is
\* answered rate_limited and a 5xx on the second attempt model_unavailable.
C17_RetryPolicy ==
  /\ Len(llm.log) <= 2
  /\ llm.backoffs <= 1
  /\ Len(llm.log) = 2 => llm.backoffs = 1
  /\ (llm.pc = "done" /\ llm.log # <<>>) =>
       /\ (Is429(llm.log[1]) \/ Is5xx(llm.log[1])) => Len(llm.log) = 2
       /\ IsAuth(llm.log[1]) =>
            /\ Len(llm.log) = 1
            /\ llm.backoffs = 0
            /\ llm.res = Respond(llm.log[1].status, "auth_error")
       /\ (Len(llm.log) = 2 /\ Is429(llm.log[2])) => llm.res = Respond(429, "rate_limited")
       /\ (Len(llm.log) = 2 /\ Is5xx(llm.log[2])) => llm.res = Respond(502, "model_unavailable")
       /\ (Len(llm.log) = 2 /\ IsAuth(llm.log[2])) =>
            llm.res = Respond(llm.log[2].status, "auth_error")

\* a 429 then a 503: two attempts, one backoff, model_unavailable
C17_Witness ==
  /\ llm.pc = "done"
  /\ Len(llm.log) = 2
  /\ Is429(llm.log[1])
  /\ llm.log[2].status = 503
  /\ llm.backoffs = 1
  /\ llm.res = Respond(502, "model_unavailable")

\* C18: an upstream call that timed out is the last upstream call of its
\* request, and the request is answered 504 timeout.
C18_TimeoutNotRetried ==
  \A i \in DOMAIN llm.log :
    IsTimeout(llm.log[i]) =>
      /\ i = Len(llm.log)
      /\ llm.pc = "done" => llm.res = Respond(504, "timeout")

\* -------------------------------------------------------- retryWithBackoff
MaxRetryCalls == 2
maxRetries == 3
delay == 1000

StoreCalls == {"Node.create", "Node.update", "Edge.create", "Node.filter", "Edge.filter"}

\* apiRequest: throw new Error(`API Error: ${response.status} - ${error}`)
GenericFailure ==
  [code |-> "none", message |-> <<"API", "Error:", "500", "-", "Failed", "to", "update", "node">>]
RateLimitFailure ==
  [code |-> "none", message |-> <<"API", "Error:", "429", "-", "Rate", "limit", "exceeded">>]
FetchFailure == [code |-> "none", message |-> <<"Failed", "to", "fetch">>]
StoreFailures == {GenericFailure, RateLimitFailure, FetchFailure}

FnOutcomes ==
  {[NoOutcome EXCEPT !.kind = "response", !.status = 200, !.content = TRUE]} \cup
  {[NoOutcome EXCEPT !.kind = "throw", !.error = e] : e \in StoreFailures}

RECURSIVE Pow2(_)
Pow2(i) == IF i = 0 THEN 1 ELSE 2 * Pow2(i - 1)

retryFrame == <<dbNodes, dbEdges, nextId, currentBoard, nodes, edges, isGenerating,
                generatingNodeId, error, reqs, lastDelete, failedGen, walk, notRetry>>

\* retryWithBackoff(fn) is called
RetryBegin(fn) ==
  /\ retry.pc \in {"idle", "returned", "thrown"}
  /\ retry.calls < MaxRetryCalls
  /\ retry' = [NoRetry EXCEPT !.pc = "call", !.fn = fn, !.calls = retry.calls + 1]
  /\ UNCHANGED retryFrame

\* one pass of the loop: await fn(), and the catch block
RetryAttempt(outcome) ==
  /\ retry.pc = "call"
  /\ LET called == [retry EXCEPT !.log = Append(@, outcome)]
     IN retry' =
          IF outcome.kind # "throw" THEN [called EXCEPT !.pc = "returned"]
          ELSE IF Includes(outcome.error.message, <<"Rate", "limit">>) /\ retry.i < maxRetries - 1
          THEN [called EXCEPT !.pc = "sleep"]
          ELSE [called EXCEPT !.pc = "thrown", !.thrown = outcome.error]
  /\ UNCHANGED retryFrame

\* setTimeout(resolve, delay * Math.pow(2, i)); continue
RetrySleep ==
  /\ retry.pc = "sleep"
  /\ retry' = [retry EXCEPT !.slept = Append(@, delay * Pow2(retry.i)),
                            !.i = @ + 1,
                            !.pc = IF retry.i + 1 < maxRetries THEN "call" ELSE "returned"]
  /\ UNCHANGED retryFrame

NextRetry ==
  \/ \E fn \in StoreCalls : RetryBegin(fn)
  \/ \E outcome \in FnOutcomes : RetryAttempt(outcome)
  \/ RetrySleep

SpecRetry == Init /\ [][NextRetry]_vars

\* C19: a failure of a wrapped store call with the generic operation-failed
\* error reaches the caller only after the attempt bound (3) is used up, with
\* an exponentially growing wait between the attempts.
C19_GenericFailureRetried ==
  (retry.pc = "thrown" /\ retry.thrown = GenericFailure) =>
    /\ Len(retry.log) = maxRetries
    /\ retry.slept = <<delay, 2 * delay>>

\* C20: once createBoard or addRootQuestion is over, whether its create and its
\* update succeeded or one of them failed, every root_question row of the store
\* and every root_question of the in-memory list has root_id equal to its id.
C20_RootIdIsOwnId ==
  /\ \A i \in Ids(dbNodes) \ BeingCreated :
       dbNodes[i].type = "root_question" => dbNodes[i].rootId = i
  /\ \A k \in 1..Len(nodes) :
       nodes[k].type = "root_question" => nodes[k].root_id = nodes[k].id

\* C21: once a question deletion has answered 200, no stored edge has the
\* deleted question or its deleted answer as source or as target.
C21_NoEdgeOfDeleted ==
  \A e \in dbEdges : \A k \in 1..Len(lastDelete.deletedNodes) :
    e.sourceId # lastDelete.deletedNodes[k] /\ e.targetId # lastDelete.deletedNodes[k]

\* a question and its answer were deleted; the page's list still shows the edge
\* between them and the edge from the answer to a follow-up, the store holds neither
C21_Witness ==
  /\ Len(lastDelete.deletedNodes) = 2
  /\ \E i \in 1..Len(edges), j \in 1..Len(edges) :
       /\ edges[i].source_id = lastDelete.deletedNodes[1]
       /\ edges[i].target_id = lastDelete.deletedNodes[2]
       /\ edges[j].source_id = lastDelete.deletedNodes[2]
       /\ edges[j].target_id \in Ids(dbNodes)
  /\ dbEdges # {}

\* ------------------------------------------------ owners and their boards
\* The tables with the columns the authorisation reads: Board.ownerId,
\* Node.boardId, Edge.boardId.  Two users each own one board.
MaxSrvRequests == 3

Anonymous == "anonymous"
Callers == {Anonymous, "alice", "bob"}
MalformedId == -1
AbsentId == 9

\* isValidId: the UUID or CUID format
isValidId(id) == id > 0

SrvRow(id, boardId, type, parentId, rootId) ==
  [id |-> id, boardId |-> boardId, type |-> type, parentId |-> parentId, rootId |-> rootId]

SrvEdge(boardId, sourceId, targetId) ==
  [boardId |-> boardId, sourceId |-> sourceId, targetId |-> targetId]

\* what the page's flows of the two users have stored: alice's board with a
\* root, its answer and one or two follow-ups, bob's board with a root and its answer
SrvStores ==
  {[NoSrv EXCEPT
      !.Board = (1 :> "alice") @@ (2 :> "bob"),
      !.Node = [i \in 1..3 |-> IF i = 1 THEN SrvRow(1, 1, "root_question", Null, 1)
                               ELSE IF i = 2 THEN SrvRow(2, 1, "ai_answer", 1, 1)
                               ELSE SrvRow(3, 1, "followup_question", 2, 1)]
               @@ (IF second THEN 6 :> SrvRow(6, 1, "followup_question", 2, 1) ELSE <<>>)
               @@ (4 :> SrvRow(4, 2, "root_question", Null, 4))
               @@ (5 :> SrvRow(5, 2, "ai_answer", 4, 4)),
      !.Edge = {SrvEdge(1, 1, 2), SrvEdge(1, 2, 3), SrvEdge(2, 4, 5)}
               \cup (IF second THEN {SrvEdge(1, 2, 6)} ELSE {})] : second \in BOOLEAN}

\* Node_boardId_fkey and Edge_boardId_fkey (ON DELETE CASCADE), then the
\* foreign keys of the rows that go with them
RECURSIVE DeleteNodeRows(_, _)
DeleteNodeRows(db, ids) ==
  IF ids = {} THEN db
  ELSE LET id == CHOOSE i \in ids : TRUE
       IN DeleteNodeRows(DeleteNodeRow(db, id), ids \ {id})

BoardNodeIds(db, boardId) == {i \in Ids(db) : db[i].boardId = boardId}

BoardCascadeNodes(db, boardId) == DeleteNodeRows(db, BoardNodeIds(db, boardId))

BoardCascadeEdges(es, db, boardId) ==
  {e \in es : /\ e.boardId # boardId
              /\ e.sourceId \notin BoardNodeIds(db, boardId)
              /\ e.targetId \notin BoardNodeIds(db, boardId)}

\* a board deletion that does not compare the owner with the caller
BoardDeleteStatusAnyUser(route, caller, id, storeFails) ==
  IF route = "app" /\ ~isValidId(id) THEN 400
  ELSE IF caller = Anonymous THEN 401
  ELSE IF storeFails THEN 500
  ELSE IF id \notin DOMAIN srv.Board THEN 404
  ELSE 200

\* DELETE /api/boards/[id]: the status the handler answers with
BoardDeleteStatus(route, caller, id, storeFails) ==
  IF route = "app" /\ ~isValidId(id) THEN 400
  ELSE IF caller = Anonymous THEN 401
  ELSE IF storeFails THEN 500
  ELSE IF id \notin DOMAIN srv.Board THEN 404
  ELSE IF srv.Board[id] # caller THEN 403
  ELSE 200

Answered(kind, route, caller, target, status) ==
  [kind |-> kind, route |-> route, caller |-> caller, target |-> target, status |-> status]

srvFrame == <<dbNodes, dbEdges, nextId, currentBoard, nodes, edges, isGenerating,
              generatingNodeId, error, reqs, lastDelete, failedGen, walk, notSrv>>

BoardDelete(route, caller, id, storeFails) ==
  /\ srv.count < MaxSrvRequests
  /\ LET status == BoardDeleteStatus(route, caller, id, storeFails)
         answered == [srv EXCEPT !.count = @ + 1,
                                 !.res = Answered("board", route, caller, id, status)]
     IN srv' = IF status = 200
               THEN [answered EXCEPT
                       !.Board = [b \in DOMAIN srv.Board \ {id} |-> srv.Board[b]],
                       !.Node = BoardCascadeNodes(srv.Node, id),
                       !.Edge = BoardCascadeEdges(srv.Edge, srv.Node, id)]
               ELSE answered
  /\ UNCHANGED srvFrame

\* POST /api/nodes/delete of the pages router, called directly or through the
\* forwarding route POST /api/nodes/[id]/delete: what it answers and stores
PagesNodeDelete(route, caller, nodeId) ==
  /\ srv.count < MaxSrvRequests
  /\ route \in {"pages", "forward"}
  /\ LET status == IF nodeId \notin Ids(srv.Node) THEN 404
                   ELSE IF ~IsQuestion(srv.Node[nodeId].type) THEN 400
                   ELSE 200
         answered == [srv EXCEPT !.count = @ + 1,
                                 !.res = Answered("node", route, caller, nodeId, status)]
     IN IF status = 200
        THEN \E answerId \in IF AnswerNodesOf(srv.Node, nodeId) = {} THEN {Null}
                             ELSE AnswerNodesOf(srv.Node, nodeId) :
               srv' = [answered EXCEPT
                         !.Node = DeletePlanNodes(srv.Node, nodeId, answerId),
                         !.Edge = DeletePlanEdges(srv.Edge, nodeId, answerId)]
        ELSE srv' = answered
  /\ UNCHANGED srvFrame

\* POST /api/nodes/delete of the app router
AppNodeDelete(caller, nodeId) ==
  /\ srv.count < MaxSrvRequests
  /\ LET status == IF caller = Anonymous THEN 401
                   ELSE IF ~isValidId(nodeId) THEN 400
                   ELSE IF nodeId \notin Ids(srv.Node) THEN 404
                   ELSE IF \/ srv.Node[nodeId].boardId \notin DOMAIN srv.Board
                           \/ srv.Board[srv.Node[nodeId].boardId] # caller THEN 403
                   ELSE 200
         answered == [srv EXCEPT !.count = @ + 1,
                                 !.res = Answered("node", "app", caller, nodeId, status)]
     IN srv' = IF status = 200
               THEN [answered EXCEPT !.Edge = CascadeEdges(srv.Edge, nodeId),
                                     !.Node = DeleteNodeRow(srv.Node, nodeId)]
               ELSE answered
  /\ UNCHANGED srvFrame

InitSrv ==
  /\ dbNodes = <<>>
  /\ dbEdges = {}
  /\ nextId = 1
  /\ currentBoard = Null
  /\ nodes = <<>>
  /\ edges = <<>>
  /\ isGenerating = FALSE
  /\ generatingNodeId = Null
  /\ error = NoError
  /\ reqs = [s \in Slots |-> Idle]
  /\ lastDelete = DeleteResponse(<<>>, {})
  /\ failedGen = {}
  /\ walk = NoWalk
  /\ del = NoDel /\ drag = NoDrag /\ view = NoView /\ llm = NoLlm /\ retry = NoRetry
  /\ srv \in SrvStores
  /\ calc = NoCalc

BoardIdsAsked == {1, 2, AbsentId, MalformedId}
NodeIdsAsked == {1, 2, 3, 4, AbsentId, MalformedId}

NextSrv ==
  \/ \E route \in {"app", "pages"}, caller \in Callers, id \in BoardIdsAsked,
        storeFails \in BOOLEAN : BoardDelete(route, caller, id, storeFails)
  \/ \E route \in {"pages", "forward"}, caller \in Callers, nodeId \in NodeIdsAsked :
       PagesNodeDelete(route, caller, nodeId)
  \/ \E caller \in Callers, nodeId \in NodeIdsAsked : AppNodeDelete(caller, nodeId)

SpecSrv == InitSrv /\ [][NextSrv]_vars

StoreChanged ==
  srv'.Board # srv.Board \/ srv'.Node # srv.Node \/ srv'.Edge # srv.Edge

BoardDeleteAnswered == srv'.count # srv.count /\ srv'.res.kind = "board"

IsOwner(caller, boardId) ==
  caller # Anonymous /\ boardId \in DOMAIN srv.Board /\ srv.Board[boardId] = caller

\* what the claim says of every board DELETE, for a set of rejection statuses
BoardDeleteContract(rejections) ==
  BoardDeleteAnswered =>
    /\ StoreChanged => IsOwner(srv'.res.caller, srv'.res.target)
    /\ ~IsOwner(srv'.res.caller, srv'.res.target) =>
         ~StoreChanged /\ srv'.res.status \in rejections
    /\ srv'.res.status = 200 =>
         /\ srv'.res.target \notin DOMAIN srv'.Board
         /\ \A i \in Ids(srv'.Node) : srv'.Node[i].boardId # srv'.res.target
         /\ \A e \in srv'.Edge : e.boardId # srv'.res.target

\* C22 as stated: a board DELETE changes the store only when the caller is the
\* board's owner; from anyone else it is answered 401, 403 or 404 and deletes
\* nothing; a successful one leaves no node and no edge of the board.
C22_BoardDeleteOwnerOnly == [][BoardDeleteContract({401, 403, 404})]_vars

\* C22 amended: the same, the rejections being 400 (malformed id), 401, 403,
\* 404 and 500 (the store failed).
C22_BoardDeleteOwnerOnlyAmended == [][BoardDeleteContract({400, 401, 403, 404, 500})]_vars

\* alice's board was deleted by alice: bob's rows are all that is left
C22_Witness ==
  /\ srv.res = Answered("board", "app", "alice", 1, 200)
  /\ DOMAIN srv.Board = {2}
  /\ Ids(srv.Node) = {4, 5}
  /\ srv.Edge = {SrvEdge(2, 4, 5)}

\* C26: a node deletion changes the store only when the caller is
\* authenticated and owns the board of the target node, on every route.
C26_NodeDeleteStep ==
  (srv'.count # srv.count /\ srv'.res.kind = "node" /\ StoreChanged) =>
    /\ srv'.res.caller # Anonymous
    /\ srv'.res.target \in Ids(srv.Node)
    /\ IsOwner(srv'.res.caller, srv.Node[srv'.res.target].boardId)

C23_EdgeIffParent ==
  /\ \A i \in Ids(dbNodes) :
       (dbNodes[i].parentId # Null /\ \A s \in Slots : reqs[s].node.id # i) =>
         EdgeRow(dbNodes[i].parentId, i) \in dbEdges
  /\ \A e \in dbEdges :
       e.targetId \in Ids(dbNodes) /\ dbNodes[e.targetId].parentId = e.sourceId

\* ------------------------------------------- calculateNewNodePosition alone
\* The function on lists of its own: a parent with no child, with children in
\* any order of y, with two children at the same y, and calls for an id that
\* is not in the list.  A placed child joins the list, as in handleAddFollowup.
MaxPlaced == 2

PositionNode(id, parentId, y, height) ==
  nodeToDTO(Row(id, IF parentId = Null THEN "root_question" ELSE "followup_question",
                parentId, 1, IF parentId = Null THEN RootX ELSE RootX + NodeWidth + HorizontalSpacing,
                y, NodeWidth, height, 30))

PositionLists ==
  {<<>>, <<PositionNode(1, Null, FirstRootY, RootHeight)>>} \cup
  {<<PositionNode(1, Null, FirstRootY, RootHeight), PositionNode(2, 1, y2, h2),
     PositionNode(3, 1, y3, h3)>> :
     y2 \in {200, 420}, y3 \in {200, 380}, h2 \in {QuestionMinHeight, QuestionMaxHeight},
     h3 \in {QuestionMinHeight, QuestionMaxHeight}}

calcFrame == <<dbNodes, dbEdges, nextId, currentBoard, nodes, edges, isGenerating,
               generatingNodeId, error, reqs, lastDelete, failedGen, walk, notCalc>>

\* calculateNewNodePosition(parentNodeId, allNodes) is called and returns
PositionCall(parentNodeId) ==
  /\ calc.pc \in {"idle", "called"}
  /\ calc' = [calc EXCEPT !.pc = "called", !.parentNodeId = parentNodeId,
                          !.result = calculateNewNodePosition(parentNodeId, calc.allNodes)]
  /\ UNCHANGED calcFrame

\* the caller creates the node at the position and appends it to the list
PositionPlace(height) ==
  /\ calc.pc = "called"
  /\ calc.placed < MaxPlaced
  /\ calc' = [calc EXCEPT
                !.pc = "idle",
                !.placed = @ + 1,
                !.allNodes = Append(@, [PositionNode(Len(calc.allNodes) + 10, calc.parentNodeId,
                                                     calc.result.y, height)
                                          EXCEPT !.x = calc.result.x])]
  /\ UNCHANGED calcFrame

InitPosition ==
  /\ dbNodes = <<>>
  /\ dbEdges = {}
  /\ nextId = 1
  /\ currentBoard = Null
  /\ nodes = <<>>
  /\ edges = <<>>
  /\ isGenerating = FALSE
  /\ generatingNodeId = Null
  /\ error = NoError
  /\ reqs = [s \in Slots |-> Idle]
  /\ lastDelete = DeleteResponse(<<>>, {})
  /\ failedGen = {}
  /\ walk = NoWalk
  /\ del = NoDel /\ drag = NoDrag /\ view = NoView /\ llm = NoLlm /\ retry = NoRetry
  /\ srv = NoSrv
  /\ calc \in {[NoCalc EXCEPT !.allNodes = l] : l \in PositionLists}

NextPosition ==
  \/ \E parentNodeId \in {1, 2, 7} : PositionCall(parentNodeId)
  \/ \E height \in {QuestionMinHeight, QuestionMaxHeight} : PositionPlace(height)

SpecPosition == InitPosition /\ [][NextPosition]_vars

\* C24: the result has x = parent.x + parent.width + 100 and y = parent.y when
\* the parent has no child, else the y of a child of largest y plus that
\* child's height plus 40; it is (100, 100) when no node has the parent id.
C24_PositionFormula ==
  calc.pc = "called" =>
    LET l == calc.allNodes
        parents == {i \in 1..Len(l) : l[i].id = calc.parentNodeId}
        kids == {i \in 1..Len(l) : l[i].parent_id = calc.parentNodeId}
    IN IF parents = {} THEN calc.result = [x |-> 100, y |-> 100]
       ELSE \A p \in parents :
              /\ calc.result.x = l[p].x + l[p].width + 100
              /\ kids = {} => calc.result.y = l[p].y
              /\ kids # {} =>
                   \E k \in kids :
                     /\ \A j \in kids : l[j].y <= l[k].y
                     /\ calc.result.y = l[k].y + l[k].height + 40

\* the child of largest y is not the last of the list: the result is below it
C24_Witness ==
  /\ calc.pc = "called"
  /\ calc.parentNodeId = 1
  /\ Len(calc.allNodes) = 3
  /\ calc.allNodes[2].y = 420 /\ calc.allNodes[2].height = QuestionMaxHeight
  /\ calc.allNodes[3].y = 200
  /\ calc.result = [x |-> RootX + NodeWidth + 100, y |-> 420 + QuestionMaxHeight + 40]

\* C25: the zoom is always a number of [0.1, 3], and right after a
\* fitToContent on a list that is not empty it is at most 2.
C25_ZoomInRange ==
  /\ IsFinite(view.zoom)
  /\ XLeq(MinZoom, view.zoom) /\ XLeq(view.zoom, MaxZoom)
  /\ (view.event = "fit" /\ nodes # <<>>) => XLeq(view.zoom, MaxFitZoom)

\* the calls of generateAIResponse that have begun and not yet finished
GenerationsInFlight == {s \in Slots : reqs[s].kind = "gen" /\ reqs[s].pc \in {"llm", "edge"}}

\* C27: while a call of generateAIResponse is in flight, isGenerating is true
\* and generatingNodeId is the parent of a call in flight.
C27_IndicatorAccurate ==
  GenerationsInFlight # {} =>
    /\ isGenerating
    /\ \E s \in GenerationsInFlight : generatingNodeId = reqs[s].parentNodeId

\* C28: a node of the in-memory list is still in the list after every step of
\* the add flows and the generations.
C28_NodesKeptStep ==
  \A i \in 1..Len(nodes) : \E j \in 1..Len(nodes') : nodes'[j].id = nodes[i].id

C28_NoNodeLost == [][C28_NodesKeptStep]_vars

\* ------------------------------------------------- leaving and loading a board
\* Node.filter({ board_id }): the rows of the board, oldest first
RECURSIVE FilterNodes(_, _)
FilterNodes(db, ids) ==
  IF ids = {} THEN <<>>
  ELSE LET first == CHOOSE i \in ids : \A j \in ids : i <= j
       IN <<nodeToDTO(db[first])>> \o FilterNodes(db, ids \ {first})

\* Edge.filter({ board_id })
RECURSIVE FilterEdges(_)
FilterEdges(es) ==
  IF es = {} THEN <<>>
  ELSE LET first == CHOOSE e \in es : \A f \in es :
                      e.targetId < f.targetId \/ (e.targetId = f.targetId /\ e.sourceId <= f.sourceId)
       IN <<edgeToDTO(first)>> \o FilterEdges(es \ {first})

\* handleBackToBoardList
HandleBackToBoardList ==
  /\ currentBoard # Null
  /\ currentBoard' = Null
  /\ nodes' = <<>>
  /\ edges' = <<>>
  /\ UNCHANGED <<storeVars, flagVars, reqs, failedGen, lastDelete, walk, otherVars>>

\* handleSelectBoard on the board of the list, and loadBoard up to its await
HandleSelectBoard ==
  /\ currentBoard = Null
  /\ nextId > 1
  /\ FreeSlots # {}
  /\ \A s \in Slots : reqs[s].kind \notin {"board", "load"}
  /\ currentBoard' = 1
  /\ reqs' = [reqs EXCEPT ![FreeSlot] = Req("load", "filter", Null, Null, 0, 0, 0, <<>>, NoNode)]
  /\ UNCHANGED <<storeVars, nodes, edges, flagVars, failedGen, lastDelete, walk, otherVars>>

\* Node.filter and Edge.filter return: the lists are replaced
LoadBoardOk(s) ==
  /\ reqs[s].kind = "load"
  /\ nodes' = FilterNodes(dbNodes, Ids(dbNodes))
  /\ edges' = FilterEdges(dbEdges)
  /\ error' = NoError
  /\ reqs' = [reqs EXCEPT ![s] = Idle]
  /\ UNCHANGED <<storeVars, currentBoard, isGenerating, generatingNodeId, failedGen,
                 lastDelete, walk, otherVars>>

\* one of the two filters throws
LoadBoardFail(s) ==
  /\ reqs[s].kind = "load"
  /\ Fails(s, "Failed to load board. Please try again.")
  /\ UNCHANGED <<storeVars, currentBoard, nodes, edges, isGenerating,
                 generatingNodeId, failedGen, lastDelete, walk, otherVars>>

\* createBoard for the one board of the store
CreateFirstBoard == nextId = 1 /\ CreateBoard(QuestionLens)

\* the flows on one board, which the user may leave and open again
NextSwitch ==
  \/ CreateFirstBoard
  \/ AddRootQuestion(QuestionLens)
  \/ HandleAddFollowup(QuestionLens)
  \/ HandleBackToBoardList
  \/ HandleSelectBoard
  \/ \E s \in Slots :
       \/ RootCreateOk(s)
       \/ RootUpdateOk(s)
       \/ FollowupCreateOk(s)
       \/ FollowupEdgeOk(s)
       \/ GenStart(s)
       \/ GenCreateOk(s, ResponseLens) \/ GenCreateFail(s)
       \/ GenEdgeOk(s)
       \/ LoadBoardOk(s) \/ LoadBoardFail(s)

SpecSwitch == Init /\ [][NextSwitch]_vars

\* C29: a generation that completes while no board is loaded, the user having
\* left the board it was started on, adds nothing to the in-memory lists, which
\* stay empty.
C29_StaleGenerationStep ==
  (currentBoard = Null /\ \E s \in GenerationsInFlight : reqs'[s] = Idle) =>
    (nodes' = <<>> /\ edges' = <<>>)

C29_StaleGenerationAddsNothing == [][C29_StaleGenerationStep]_vars

\* C30: two follow-up questions stored under the same parent never have the
\* same (x, y), also when their additions overlapped.
C30_SiblingsApart ==
  \A i \in Ids(dbNodes), j \in Ids(dbNodes) :
    (/\ i # j
     /\ dbNodes[i].type = "followup_question" /\ dbNodes[j].type = "followup_question"
     /\ dbNodes[i].parentId # Null /\ dbNodes[i].parentId = dbNodes[j].parentId)
    => <<dbNodes[i].x, dbNodes[i].y>> # <<dbNodes[j].x, dbNodes[j].y>>

====
